---------------------------- MODULE Spec2Model ----------------------------
(***************************************************************************)
(* Model of yves: the two watchers that append events to their JSON log    *)
(* files (lib/file_system_watcher.py, lib/tmux_watcher.py) and the daily   *)
(* summarization pipeline (lib/llm_summarizer.py, lib/llm.py) started by   *)
(* yves/main.py.  The three loops are threads that share only the two log  *)
(* files, the stop event and the wall clock.                               *)
(***************************************************************************)
EXTENDS Integers, Sequences, FiniteSets, TLC

(***************************************************************************)
(* Bounds of the model.                                                    *)
(***************************************************************************)
MaxDay == 2
MaxEvents == 1
MaxApiEvents == 2

Days == 1..MaxDay
\* times of day: before the configured run hour, and from it on
Tods == {0, 1}
W == {"fs", "tmux"}

VARIABLES
    day, tod,            \* wall clock: calendar date, time of day
    mode,                \* yves sub-command: "record" or "summarize"
    run_hour,            \* summarizer.run_hour
    token_limit,         \* summarizer.token_limit
    stop,                \* stop_event.is_set()
    log,                 \* log[w]: the log file written by watcher w
    artifacts,           \* artifacts[d]: the file <output_dir>/<d>.md
    pcS,                 \* position of generate_summary
    last_run_day,        \* summarizer.last_run_day
    today,               \* generate_summary's local `today`
    now,                 \* generate_summary's local `now`
    tmux_events,         \* merge_logs_by_timestamp's local `tmux_events`
    text,                \* generate_summary's local `text`
    list_text,           \* summarize's local `list_text`
    idx,                 \* number of the chunk the next LLM call is for
    summary,             \* local `summary`
    pcW,                 \* position of watcher w
    batch,               \* changes / completed_commands of watcher w
    all_events,          \* local `all_events` of write_*_to_file
    nextId,              \* identity of the next event to be observed
    calls,               \* history: the LLM calls of the run, in order
    results,             \* history: what each LLM call of the run returned
    consumed,            \* history: ids of the merged input of a run that
                         \* obtained a summary
    writes,              \* history: artifact writes that succeeded
    truncated,           \* history: the pipeline emptied log w
    stale,               \* history: log w was emptied during w's write call
    staleWrite,          \* history: w rewrote log w from a stale snapshot
    preCall,             \* history: log w as it was when w's call began
    files,               \* the watched directory: files[p] is what is at p
    file_snapshots,      \* watcher.file_snapshots
    include_filetypes,   \* watcher.include_filetypes
    exclude_filetypes,   \* watcher.exclude_filetypes
    major_changes_only,  \* watcher.major_changes_only
    changes,             \* what the last check_for_changes returned
    pcF,                 \* position of the file watcher's watch
    quiet,               \* history: no file was modified, created or
                         \* deleted since check_for_changes last returned
    last_seen,           \* history: what d/a.txt was at the last scan
    screen,              \* screen[p]: the text shown by tmux pane p
    active,              \* the panes tmux has (none: no server runs)
    initial_panes,       \* the panes of the configuration
    capture_full_output, \* watcher.capture_full_output
    panes,               \* watcher.panes
    pane_states,         \* watcher.pane_states
    polled,              \* history: the polls of pane p (2 for 2 or more)
                         \* since what a capture of it gives last changed
    call,                \* a function called on its own: name and arguments
    ret                  \* what the call returned, or that it raised

scanVars == <<files, file_snapshots, include_filetypes, exclude_filetypes,
              major_changes_only, changes, pcF, quiet, last_seen>>

paneVars == <<screen, active, initial_panes, capture_full_output, panes,
              pane_states, polled>>

\* the state of the specifications of single components
\* a function of the program, called on its own
fnVars == <<call, ret>>

unitVars == <<scanVars, paneVars, fnVars>>

vars == <<day, tod, mode, run_hour, token_limit, stop, log, artifacts, pcS,
          last_run_day, today, now, tmux_events, text, list_text, idx,
          summary, pcW, batch, all_events, nextId, calls, results, consumed,
          writes,
          truncated, stale, staleWrite, preCall, unitVars>>

clockVars == <<day, tod>>
cfgVars == <<mode, run_hour, token_limit>>
sumVars == <<pcS, last_run_day, today, now, tmux_events, text, list_text,
             idx, summary>>
sumHist == <<calls, results, consumed, writes>>
watchVars == <<pcW, batch, all_events, nextId, preCall>>
raceHist == <<truncated, stale, staleWrite>>

(***************************************************************************)
(* Files.  A file is missing, holds text that is not JSON (the zero-byte   *)
(* file left by open(path, "w") is the case that arises), or holds a JSON  *)
(* array of events.                                                        *)
(***************************************************************************)
Missing == [kind |-> "missing", events |-> <<>>]
ZeroByte == [kind |-> "zero", events |-> <<>>]
Json(evs) == [kind |-> "json", events |-> evs]

\* json.load / json.loads: the array, or JSONDecodeError (ok = FALSE)
json_load(f) == [ok |-> f.kind = "json", events |-> f.events]

\* An event of a log: its identity, timestamp and the number of
\* whitespace-separated words of its serialization.
Event(i, t, n) == [id |-> i, ts |-> t, words |-> n]

Ids(evs) == {evs[i].id : i \in 1..Len(evs)}

\* int(datetime.now().timestamp()), in days
Timestamp(d, t) == d

(***************************************************************************)
(* Texts are sequences of atoms.  None is the failure sentinel.            *)
(***************************************************************************)
Atom(k, v) == [k |-> k, v |-> v]
NoneVal == [ok |-> FALSE, text |-> <<>>]
Str(t) == [ok |-> TRUE, text |-> t]

\* json.dumps of a list of events
RECURSIVE EventAtoms(_)
EventAtoms(evs) ==
    IF evs = <<>> THEN <<>>
    ELSE <<Atom("ev", Head(evs).id)>> \o EventAtoms(Tail(evs))

json_dumps(evs) == <<Atom("[", 0)>> \o EventAtoms(evs) \o <<Atom("]", 0)>>

NoFile == [exists |-> FALSE, text |-> <<>>]

(***************************************************************************)
(* lib/llm.py                                                              *)
(***************************************************************************)
\* read_json_log: open() raises FileNotFoundError on a missing file, and
\* only json.JSONDecodeError is caught
read_json_log(f) ==
    IF f.kind = "missing" THEN [raised |-> TRUE, events |-> <<>>]
    ELSE [raised |-> FALSE,
          events |-> IF json_load(f).ok THEN json_load(f).events ELSE <<>>]

\* the ts of an event that has no "timestamp" key
NoTimestamp == -1

\* mutant of SortKey: no default for a missing timestamp
SortKey_NoDefault(e) == e.ts

\* the sort key: event.get("timestamp", 0)
SortKey(e) == IF e.ts = NoTimestamp THEN 0 ELSE e.ts

\* list.sort(key=...): stable, ascending
RECURSIVE InsertByTs(_, _)
InsertByTs(e, s) ==
    IF s = <<>> THEN <<e>>
    ELSE IF SortKey(Head(s)) <= SortKey(e)
         THEN <<Head(s)>> \o InsertByTs(e, Tail(s))
    ELSE <<e>> \o s

RECURSIVE SortByTs(_)
SortByTs(s) ==
    IF s = <<>> THEN <<>>
    ELSE InsertByTs(s[Len(s)], SortByTs(SubSeq(s, 1, Len(s) - 1)))

\* merge_logs_by_timestamp, after both logs were read
merge_logs_by_timestamp(tmuxEvs, fsEvs) == Json(SortByTs(tmuxEvs \o fsEvs))

\* len(item_str): the events of the model are spelled with words so long
\* that all serialize to the same number of characters
EventChars == 38
item_chars(e) == EventChars

\* len(item_str.split()) // 3.5
item_tokens(e) == (2 * e.words) \div 7

\* mutant of SplitLoop: an event that fills the chunk to the limit is not
\* taken
RECURSIVE SplitLoop_SealsAtLimit(_, _, _)
SplitLoop_SealsAtLimit(items, st, limit) ==
    IF items = <<>> THEN st
    ELSE LET item == Head(items)
             t == item_tokens(item)
         IN  IF st[3] + t >= limit
             THEN SplitLoop_SealsAtLimit(Tail(items),
                            <<Append(st[1], st[2]), <<item>>, t>>, limit)
             ELSE SplitLoop_SealsAtLimit(Tail(items),
                            <<st[1], Append(st[2], item), st[3] + t>>, limit)

\* the for loop of split_json_by_token_limit: st is <<sublists, current,
\* current_tokens>>
RECURSIVE SplitLoop(_, _, _)
SplitLoop(items, st, limit) ==
    IF items = <<>> THEN st
    ELSE LET item == Head(items)
             t == item_tokens(item)
         IN  IF st[3] + t > limit
             THEN SplitLoop(Tail(items),
                            <<Append(st[1], st[2]), <<item>>, t>>, limit)
             ELSE SplitLoop(Tail(items),
                            <<st[1], Append(st[2], item), st[3] + t>>, limit)

\* mutant of split_json_by_token_limit: the `if current:` append is left out
split_json_by_token_limit_NoLastChunk(json_str, limit) ==
    IF ~json_load(json_str).ok THEN <<>>
    ELSE SplitLoop(json_load(json_str).events, <<<<>>, <<>>, 0>>, limit)[1]

split_json_by_token_limit(json_str, limit) ==
    IF ~json_load(json_str).ok THEN <<>>
    ELSE LET st == SplitLoop(json_load(json_str).events, <<<<>>, <<>>, 0>>,
                             limit)
         IN  IF st[2] # <<>> THEN Append(st[1], st[2]) ELSE st[1]

(***************************************************************************)
(* lib/file_system_watcher.py and lib/file.py: the watched directory, the  *)
(* scan and the change detection.  There is one watched directory d, which *)
(* is also the directory of the two logs and of the summaries.             *)
(***************************************************************************)
\* d/a.txt
UserFile == [k |-> "user", n |-> 0]
\* d/.env.txt
HiddenFile == [k |-> "hidden", n |-> 0]
\* d/sub.txt, a directory
SubDir == [k |-> "dir", n |-> 0]
\* watcher.output_file = d/fs_changes.json
FsLog == [k |-> "fslog", n |-> 0]
\* watcher.tmux_output_file = d/tmux_changes.json
TmuxLog == [k |-> "tmuxlog", n |-> 0]
\* os.path.join(watcher.summary_output_dir, f"{date}.md")
SummaryFile(date) == [k |-> "summary", n |-> date]

\* the order in which glob lists the directory
PathOrder ==
    <<UserFile, HiddenFile, SubDir, FsLog, TmuxLog>>
        \o [i \in Days |-> SummaryFile(i)]
Paths == {PathOrder[i] : i \in DOMAIN PathOrder}

\* the filters of the configuration, in list order
FilterOrder == <<".txt", "txt", ".md", ".json">>

\* the filter a path ends with (path.endswith, and the pattern "*" + filter)
Suffix(p) ==
    CASE p.k \in {"user", "hidden", "dir"} -> ".txt"
      [] p.k \in {"fslog", "tmuxlog"} -> ".json"
      [] OTHER -> ".md"

\* the path ends with the filter: "txt" is the end of ".txt"
EndsWith(p, ft) == Suffix(p) = ft \/ (ft = "txt" /\ Suffix(p) = ".txt")

\* a name that starts with "."
Hidden(p) == p.k = "hidden"

\* d/a.py, a file of a directory that holds source code
PyFile == [k |-> "py", n |-> 0]

\* the extension is one of .py .js .ts .java .cpp .c .go .rs
HasCodeExt(p) == p.k = "py"

\* A line of text: the text it normalizes to (stem), its spelling of the
\* whitespace (ws), whether it holds a structural keyword, whether it
\* is blank or a comment, and its family: lines of one family have a
\* SequenceMatcher ratio of at least similarity_threshold.
Line(stem, ws, kw, skip, fam) ==
    [stem |-> stem, ws |-> ws, kw |-> kw, skip |-> skip, fam |-> fam]

\* the empty string
EmptyLine == Line(0, 0, FALSE, TRUE, 0)

\* What is at a path: nothing, a directory, a text file, a binary file;
\* v tells apart the contents of binary files; a file can be unreadable.
Absent == [kind |-> "absent", lines |-> <<>>, v |-> 0, readable |-> TRUE]
Dir == [kind |-> "dir", lines |-> <<>>, v |-> 0, readable |-> TRUE]
TextFile(ls) == [kind |-> "text", lines |-> ls, v |-> 0, readable |-> TRUE]
BinaryFile(v) == [kind |-> "binary", lines |-> <<>>, v |-> v,
                  readable |-> TRUE]

\* os.path.isfile
isfile(f) == f.kind \in {"text", "binary"}

\* get_md5: open() raises OSError on a file that cannot be read; the digest
\* stands for the bytes
get_md5(f) ==
    [raised |-> ~f.readable \/ ~isfile(f),
     hash |-> [kind |-> f.kind, lines |-> f.lines, v |-> f.v]]

\* is_binary: the first block holds a byte that is no text character
is_binary(f) == f.kind = "binary"

\* get_content: the lines, or None on OSError
get_content(f) ==
    [ok |-> f.readable /\ isfile(f), lines |-> f.lines]

\* file_snapshots.get(path): no entry, or hash, lines, is_binary
NoSnapshot ==
    [has |-> FALSE, hash |-> get_md5(Absent).hash, lines |-> <<>>,
     is_binary |-> FALSE]
\* mutant of Snapshot: nothing is stored
Snapshot_NotStored(h, ls, b) == NoSnapshot

\* mutant of Snapshot: the lines are not stored
Snapshot_NoLines(h, ls, b) ==
    [has |-> TRUE, hash |-> h, lines |-> <<>>, is_binary |-> b]

Snapshot(h, ls, b) == [has |-> TRUE, hash |-> h, lines |-> ls, is_binary |-> b]

\* the length of the longest common prefix
RECURSIVE CommonPrefix(_, _)
CommonPrefix(a, b) ==
    IF a = <<>> \/ b = <<>> THEN 0
    ELSE IF Head(a) # Head(b) THEN 0
    ELSE 1 + CommonPrefix(Tail(a), Tail(b))

Reverse(a) == [i \in 1..Len(a) |-> a[Len(a) + 1 - i]]

\* no diff: generate_diff returned None
NoDiff == [none |-> TRUE, msg |-> "", removed |-> <<>>, added |-> <<>>]

\* generate_diff: None when unified_diff yields nothing, else the "-" and
\* "+" lines of the diff (of contents that differ in one run of lines)
generate_diff(old_lines, new_lines) ==
    IF old_lines = new_lines THEN NoDiff
    ELSE LET pre == CommonPrefix(old_lines, new_lines)
             o == SubSeq(old_lines, pre + 1, Len(old_lines))
             n == SubSeq(new_lines, pre + 1, Len(new_lines))
             suf == CommonPrefix(Reverse(o), Reverse(n))
         IN  [none |-> FALSE, msg |-> "",
              removed |-> SubSeq(o, 1, Len(o) - suf),
              added |-> SubSeq(n, 1, Len(n) - suf)]

\* the diff text of a binary file
BinaryDiff(msg) == [none |-> FALSE, msg |-> msg, removed |-> <<>>,
                    added |-> <<>>]

\* an element of the list check_for_changes returns
Change(type, file, diff) == [type |-> type, file |-> file, diff |-> diff]

\* the records write_changes_to_file builds from the changes it is given;
\* change.get("is_binary", False) is the default when the key is missing
changes_list(chs) ==
    [i \in DOMAIN chs |->
        [file |-> chs[i].file,
         status |-> chs[i].type,
         diff |-> chs[i].diff,
         is_binary |-> IF "is_binary" \in DOMAIN chs[i]
                       THEN chs[i].is_binary ELSE FALSE]]

\* FileSystemWatcher.min_lines_changed
min_lines_changed == 3

\* normalize_line
normalize_line(major, line) ==
    IF ~major THEN line
    ELSE IF line.skip THEN EmptyLine
    ELSE [line EXCEPT !.ws = 0]

\* mutant of is_major_change: the comparison of the paired lines is left out
is_major_change_NoSimilarity(major, old_lines, new_lines, p) ==
    IF ~major THEN TRUE
    ELSE LET old_set == {normalize_line(major, old_lines[i]) :
                            i \in 1..Len(old_lines)} \ {EmptyLine}
             new_set == {normalize_line(major, new_lines[i]) :
                            i \in 1..Len(new_lines)} \ {EmptyLine}
             changed == (new_set \ old_set) \cup (old_set \ new_set)
         IN  \/ HasCodeExt(p) /\ \E l \in changed : l.kw
             \/ Cardinality(changed) >= min_lines_changed

\* is_major_change
is_major_change(major, old_lines, new_lines, p) ==
    IF ~major THEN TRUE
    ELSE LET old_normalized == [i \in 1..Len(old_lines) |->
                                   normalize_line(major, old_lines[i])]
             new_normalized == [i \in 1..Len(new_lines) |->
                                   normalize_line(major, new_lines[i])]
             old_set == {old_normalized[i] : i \in 1..Len(old_lines)}
                            \ {EmptyLine}
             new_set == {new_normalized[i] : i \in 1..Len(new_lines)}
                            \ {EmptyLine}
             added_lines == new_set \ old_set
             removed_lines == old_set \ new_set
             total_changes == Cardinality(added_lines)
                                  + Cardinality(removed_lines)
             zipped == 1..(IF Len(old_lines) < Len(new_lines)
                           THEN Len(old_lines) ELSE Len(new_lines))
         IN  \/ /\ HasCodeExt(p)
                /\ \E l \in added_lines \cup removed_lines : l.kw
             \/ total_changes >= min_lines_changed
             \/ \E i \in zipped :
                   /\ old_normalized[i] # new_normalized[i]
                   /\ old_normalized[i].fam # new_normalized[i].fam

\* glob(f"{parent_dir}/**/*{include_filetype}", recursive=True): files
\* and directories alike, none whose name starts with "."
glob(ft) ==
    SelectSeq(PathOrder,
              LAMBDA p : files[p].kind # "absent" /\ ~Hidden(p)
                             /\ EndsWith(p, ft))

RECURSIVE GlobEach(_)
GlobEach(fts) ==
    IF fts = <<>> THEN <<>> ELSE glob(Head(fts)) \o GlobEach(Tail(fts))

\* watcher.include_filetypes as a list
IncludeList == SelectSeq(FilterOrder, LAMBDA ft : ft \in include_filetypes)

\* result = iglob(f"{parent_dir}/**/*"), after the f-string of the debug
\* message ran len(list(result)): the iterator has no element left
ExhaustedIglob == <<>>

\* exclude_filetypes_fn
exclude_filetypes_fn(p) == ~\E ft \in exclude_filetypes : EndsWith(p, ft)

\* scan_files.glob_fn
glob_fn ==
    LET result == GlobEach(IncludeList)
    IN  IF Len(result) = 0 /\ Len(IncludeList) > 0 THEN <<>>
        ELSE SelectSeq(IF Len(result) = 0 THEN ExhaustedIglob ELSE result,
                       exclude_filetypes_fn)

\* scan_files: today = date.today(); the two logs and today's summary are
\* left out, and what is no regular file
scan_files ==
    SelectSeq(glob_fn,
              LAMBDA p : /\ p # FsLog
                         /\ p # TmuxLog
                         /\ p # SummaryFile(day)
                         /\ isfile(files[p]))

\* one pass of the for loop of check_for_changes; st holds the snapshots,
\* the changes so far and whether an exception left the function
CheckOne(p, st) ==
    LET f == files[p]
        current_hash == get_md5(f)
        snap == st.snaps[p]
        current_lines == get_content(f)
    IN  IF current_hash.raised THEN [st EXCEPT !.raised = TRUE]
        ELSE IF is_binary(f)
        THEN IF ~snap.has
             THEN [st EXCEPT
                     !.changes = Append(@, Change("new", p,
                                     BinaryDiff("Binary file added"))),
                     !.snaps[p] = Snapshot(current_hash.hash, <<>>, TRUE)]
             ELSE IF snap.hash # current_hash.hash
             THEN [st EXCEPT
                     !.changes = Append(@, Change("modified", p,
                                     BinaryDiff("Binary file modified"))),
                     !.snaps[p] = Snapshot(current_hash.hash, <<>>, TRUE)]
             ELSE st
        ELSE IF ~current_lines.ok THEN st
        ELSE IF ~snap.has
        THEN LET diff == generate_diff(<<>>, current_lines.lines)
                 emit == /\ \/ ~major_changes_only
                            \/ is_major_change(major_changes_only, <<>>,
                                               current_lines.lines, p)
                         /\ ~diff.none
             IN  [st EXCEPT
                     !.changes = IF emit
                                 THEN Append(@, Change("new", p, diff))
                                 ELSE @,
                     !.snaps[p] = Snapshot(current_hash.hash,
                                           current_lines.lines, FALSE)]
        ELSE IF snap.hash # current_hash.hash
        THEN LET diff == generate_diff(snap.lines, current_lines.lines)
                 emit == /\ is_major_change(major_changes_only, snap.lines,
                                            current_lines.lines, p)
                         /\ ~diff.none
             IN  [st EXCEPT
                     !.changes = IF emit
                                 THEN Append(@, Change("modified", p, diff))
                                 ELSE @,
                     !.snaps[p] = Snapshot(current_hash.hash,
                                           current_lines.lines, FALSE)]
        ELSE st

RECURSIVE CheckLoop(_, _)
CheckLoop(ps, st) ==
    IF ps = <<>> \/ st.raised THEN st
    ELSE CheckLoop(Tail(ps), CheckOne(Head(ps), st))

\* check_for_changes: the snapshots it leaves, the changes it returns, or
\* the exception that leaves it
check_for_changes ==
    CheckLoop(scan_files,
              [snaps |-> file_snapshots, changes |-> <<>>, raised |-> FALSE])

\* one pass of the for loop of the initial scan of watch
InitialOne(p, st) ==
    LET f == files[p]
        current_hash == get_md5(f)
        current_lines == get_content(f)
    IN  IF current_hash.raised THEN [st EXCEPT !.raised = TRUE]
        ELSE IF is_binary(f)
        THEN [st EXCEPT !.snaps[p] = Snapshot(current_hash.hash, <<>>, TRUE)]
        ELSE IF current_lines.ok
        THEN [st EXCEPT !.snaps[p] = Snapshot(current_hash.hash,
                                              current_lines.lines, FALSE)]
        ELSE st

RECURSIVE InitialLoop(_, _)
InitialLoop(ps, st) ==
    IF ps = <<>> \/ st.raised THEN st
    ELSE InitialLoop(Tail(ps), InitialOne(Head(ps), st))

\* a process whose file watcher is not looked at
ScanIdle ==
    /\ files = [p \in Paths |-> Absent]
    /\ file_snapshots = [p \in Paths |-> NoSnapshot]
    /\ include_filetypes = {}
    /\ exclude_filetypes = {}
    /\ major_changes_only = FALSE
    /\ changes = <<>>
    /\ pcF = "off"
    /\ quiet = FALSE
    /\ last_seen = Absent

(***************************************************************************)
(* lib/tmux.py and lib/tmux_watcher.py: the text of a pane and the poll.   *)
(***************************************************************************)
Panes == {"p1", "p2"}

\* the order in which list(current_panes) holds the panes
PaneOrder == <<"p1", "p2">>

\* A command text: its first word and its number of words; the empty
\* string has no word.
Cmd(base, n) == [base |-> base, n |-> n]
NoCmd == Cmd("", 0)

\* A line of a pane: blank; output text, not ending ("out") or ending
\* ("outp", as in "100%") with a prompt indicator; a prompt with nothing
\* typed ("bare"); a command typed after a "$" prompt ("dollar"), after a
\* glyph prompt ("glyph") or after ">>> " ("py"), none of them ending with
\* a prompt indicator; a command typed after a "$" prompt that ends with
\* one ("dollarp", as in "$ make #"); a line with a "$" and a glyph
\* ("mixed", as in "$ ls ❯ make": what follows the "$" starts with ls).
TLine(kind, cmd) == [kind |-> kind, cmd |-> cmd]
BlankT == TLine("blank", NoCmd)
OutT == TLine("out", NoCmd)
OutEndsPrompt == TLine("outp", NoCmd)
BarePrompt == TLine("bare", NoCmd)
Dollar(c) == TLine("dollar", c)
Glyph(c) == TLine("glyph", c)
Py(c) == TLine("py", c)
DollarEndsPrompt(c) == TLine("dollarp", c)
Mixed(c) == TLine("mixed", c)

CommandKinds == {"dollar", "glyph", "py", "dollarp", "mixed"}

\* the commands get_command_from_content takes from a line, in the order
\* in which it tries them: after the "$", after the glyph, after ">>> "
Candidates(line) ==
    IF line.kind = "mixed" THEN <<Cmd("ls", line.cmd.n + 2), line.cmd>>
    ELSE IF line.kind \in CommandKinds THEN <<line.cmd>>
    ELSE <<>>

\* pane_content.strip().split("\n"): the lines from the first to the last
\* that is not blank; at least one line, the empty one
strip_split(content) ==
    LET inked == {i \in 1..Len(content) : content[i].kind # "blank"}
    IN  IF inked = {} THEN <<BlankT>>
        ELSE SubSeq(content,
                    CHOOSE i \in inked : \A j \in inked : i <= j,
                    CHOOSE i \in inked : \A j \in inked : j <= i)

\* is_command_finished: the last line ends with a prompt indicator
is_command_finished(content) ==
    LET lines == strip_split(content)
    IN  lines[Len(lines)].kind \in {"bare", "outp", "dollarp"}

\* is_valid_command
is_valid_command(cmd) ==
    /\ cmd # NoCmd
    /\ ~(cmd.n > 10)
    /\ cmd.base \notin {"ls", "cd", "pwd", "echo", "cat", "clear", "history"}

\* a string of whitespace: not empty, and no token
BlankCmd == Cmd(" ", 0)

\* is_valid_command: cmd.split()[0] raises IndexError
is_valid_command_raises(cmd) == cmd # NoCmd /\ ~(cmd.n > 10) /\ cmd.n = 0

\* mutant of ScanBack: the first command of a line is returned, valid or
\* not
RECURSIVE ScanBack_NoFilter(_, _)
ScanBack_NoFilter(lines, i) ==
    IF i = 0 THEN NoCmd
    ELSE IF Candidates(lines[i]) # <<>> THEN Candidates(lines[i])[1]
    ELSE ScanBack_NoFilter(lines, i - 1)

\* the backward for loop of get_command_from_content, from line i
RECURSIVE ScanBack(_, _)
ScanBack(lines, i) ==
    IF i = 0 THEN NoCmd
    ELSE LET cands == Candidates(lines[i])
             valid == {k \in DOMAIN cands : is_valid_command(cands[k])}
         IN  IF valid # {}
             THEN cands[CHOOSE k \in valid : \A j \in valid : k <= j]
             ELSE ScanBack(lines, i - 1)

\* get_command_from_content
get_command_from_content(content) ==
    IF ~is_command_finished(content) THEN NoCmd
    ELSE LET lines == strip_split(content)
         IN  IF Len(lines) < 2 THEN NoCmd
             ELSE ScanBack(lines, Len(lines) - 1)

\* extract_last_command_output: from the last line that holds a typed
\* command to the line before the next bare prompt
extract_last_command_output(content) ==
    LET lines == strip_split(content)
        cmds == {i \in 1..Len(lines) : lines[i].kind \in CommandKinds}
    IN  IF cmds = {} THEN <<>>
        ELSE LET command_line_idx ==
                     CHOOSE i \in cmds : \A j \in cmds : j <= i
                 prompts == {i \in (command_line_idx + 1)..Len(lines) :
                                lines[i].kind = "bare"}
                 next_prompt_idx ==
                     IF prompts = {} THEN Len(lines) + 1
                     ELSE CHOOSE i \in prompts : \A j \in prompts : i <= j
             IN  SubSeq(lines, command_line_idx, next_prompt_idx - 1)

\* get_tmux_pane_content: the text of the pane; tmux prints nothing for a
\* pane it does not have
get_tmux_pane_content(p) == IF p \in active THEN screen[p] ELSE <<>>

\* watcher.pane_states.get(pane): no entry, or last_command
NoPaneState == [has |-> FALSE, last_command |-> NoCmd]
PaneState(c) == [has |-> TRUE, last_command |-> c]

\* `output and output.strip()`
NonBlank(output) == \E i \in 1..Len(output) : output[i].kind # "blank"

\* mutant of PollOne: the command is not compared with last_command
PollOne_EmitsAgain(p, st) ==
    LET current_content == get_tmux_pane_content(p)
        command == get_command_from_content(current_content)
        output == IF capture_full_output THEN current_content
                  ELSE extract_last_command_output(current_content)
    IN  IF is_command_finished(current_content) /\ command # NoCmd
        THEN [st EXCEPT
                !.completed = IF NonBlank(output)
                              THEN Append(@, [pane |-> p,
                                              command |-> command,
                                              output |-> output])
                              ELSE @,
                !.states[p] = PaneState(command)]
        ELSE [st EXCEPT !.states[p] = IF st.states[p].has THEN st.states[p]
                                      ELSE PaneState(NoCmd)]

\* mutant of PollOne: last_command is not updated
PollOne_KeepsLastCommand(p, st) ==
    LET current_content == get_tmux_pane_content(p)
        pane_state == IF st.states[p].has THEN st.states[p]
                      ELSE PaneState(NoCmd)
        command == get_command_from_content(current_content)
        output == IF capture_full_output THEN current_content
                  ELSE extract_last_command_output(current_content)
    IN  IF /\ is_command_finished(current_content)
           /\ command # NoCmd
           /\ command # pane_state.last_command
        THEN [st EXCEPT
                !.completed = IF NonBlank(output)
                              THEN Append(@, [pane |-> p,
                                              command |-> command,
                                              output |-> output])
                              ELSE @,
                !.states[p] = pane_state]
        ELSE [st EXCEPT !.states[p] = pane_state]

\* one pass of the for loop of check_for_completed_commands; st holds
\* pane_states and completed_commands
PollOne(p, st) ==
    LET current_content == get_tmux_pane_content(p)
        pane_state == IF st.states[p].has THEN st.states[p]
                      ELSE PaneState(NoCmd)
        command == get_command_from_content(current_content)
        output == IF capture_full_output THEN current_content
                  ELSE extract_last_command_output(current_content)
    IN  IF /\ is_command_finished(current_content)
           /\ command # NoCmd
           /\ command # pane_state.last_command
        THEN [st EXCEPT
                !.completed = IF NonBlank(output)
                              THEN Append(@, [pane |-> p,
                                              command |-> command,
                                              output |-> output])
                              ELSE @,
                !.states[p] = PaneState(command)]
        ELSE [st EXCEPT !.states[p] = pane_state]

RECURSIVE PollLoop(_, _)
PollLoop(ps, st) ==
    IF ps = <<>> THEN st ELSE PollLoop(Tail(ps), PollOne(Head(ps), st))

\* check_for_completed_commands over the panes ps
check_for_completed_commands(ps) ==
    PollLoop(SelectSeq(PaneOrder, LAMBDA p : p \in ps),
             [states |-> pane_states, completed |-> <<>>])

\* no function is called on its own
NoCall == [fn |-> "none", args |-> <<>>]
NoRet == [done |-> FALSE, raised |-> FALSE, value |-> FALSE]
FnIdle == call = NoCall /\ ret = NoRet

\* a process whose tmux watcher is not looked at
PanesIdle ==
    /\ screen = [p \in Panes |-> <<>>]
    /\ active = {}
    /\ initial_panes = {}
    /\ capture_full_output = FALSE
    /\ panes = {}
    /\ pane_states = [p \in Panes |-> NoPaneState]
    /\ polled = [p \in Panes |-> 0]

(***************************************************************************)
(* Initial state: a fresh process.  The log files are what an earlier      *)
(* process left: nothing, an emptied file, or an array of events.          *)
(***************************************************************************)
InitFiles(w) ==
    {Missing, ZeroByte,
     Json(<<Event(IF w = "fs" THEN 1 ELSE 2, 0, 7)>>)}

LastRunDayInit == 0

Init ==
    /\ day = 1 /\ tod = 0
    /\ mode \in {"record", "summarize"}
    /\ run_hour \in {1}
    /\ token_limit \in {2}
    /\ stop = FALSE
    /\ log \in {f \in [W -> UNION {InitFiles(w) : w \in W}] :
                    \A w \in W : f[w] \in InitFiles(w)}
    /\ artifacts = [d \in Days |-> NoFile]
    /\ pcS = "entry"
    /\ last_run_day = LastRunDayInit
    /\ today = 0
    /\ now = [day |-> 0, tod |-> 0]
    /\ tmux_events = <<>>
    /\ text = Json(<<>>)
    /\ list_text = <<>>
    /\ idx = 0
    /\ summary = NoneVal
    /\ pcW = [w \in W |-> IF mode = "record" THEN "loop" ELSE "off"]
    /\ batch = [w \in W |-> <<>>]
    /\ all_events = [w \in W |-> <<>>]
    /\ nextId = 3
    /\ calls = <<>>
    /\ results = <<>>
    /\ consumed = {}
    /\ writes = <<>>
    /\ truncated = [w \in W |-> FALSE]
    /\ stale = [w \in W |-> FALSE]
    /\ staleWrite = [w \in W |-> FALSE]
    /\ preCall = [w \in W |-> Missing]
    /\ ScanIdle
    /\ PanesIdle
    /\ FnIdle

(***************************************************************************)
(* The environment: the clock and the shutdown signal.                     *)
(***************************************************************************)
\* time passes
Advance ==
    /\ \/ tod + 1 \in Tods /\ tod' = tod + 1 /\ day' = day
       \/ tod + 1 \notin Tods /\ day < MaxDay /\ tod' = 0 /\ day' = day + 1
    /\ UNCHANGED <<cfgVars, unitVars, stop, log, artifacts, sumVars, sumHist,
                   watchVars, raceHist>>

\* SIGINT / SIGTERM: signal_handler sets the stop event.  The summarize
\* sub-command passes a private Event that nothing sets.
SetStop ==
    /\ mode = "record"
    /\ ~stop
    /\ stop' = TRUE
    /\ UNCHANGED <<clockVars, cfgVars, unitVars,
                   log, artifacts, sumVars, sumHist,
                   watchVars, raceHist>>

(***************************************************************************)
(* lib/llm_summarizer.py: generate_summary, run as a thread by main (the   *)
(* record sub-command, wait_to_summarize = True) or called directly (the   *)
(* summarize sub-command, wait_to_summarize = False).                      *)
(***************************************************************************)
wait_to_summarize == mode = "record"

\* mutant of ShouldRun: the run hour itself does not count
ShouldRun_StrictTime(n) == n.tod > run_hour /\ n.day > last_run_day

\* mutant of ShouldRun: a day whose artifact exists is not run again
ShouldRun_UnlessArtifact(n) ==
    n.tod >= run_hour /\ n.day > last_run_day /\ ~artifacts[n.day].exists

\* now.time() >= summarizer.run_hour and now.date() > summarizer.last_run_day
ShouldRun(n) == n.tod >= run_hour /\ n.day > last_run_day

\* generate_summary returns (or its thread dies): its locals are gone
Returned ==
    /\ today' = 0
    /\ now' = [day |-> 0, tod |-> 0]
    /\ tmux_events' = <<>>
    /\ text' = Json(<<>>)
    /\ list_text' = <<>>
    /\ idx' = 0
    /\ summary' = NoneVal
    /\ calls' = <<>>
    /\ results' = <<>>

\* today = date.today(), taken once, before the loop
GS_Entry ==
    /\ pcS = "entry"
    /\ today' = day
    /\ pcS' = "loop"
    /\ UNCHANGED <<clockVars, cfgVars, unitVars,
                   stop, log, artifacts, last_run_day,
                   now, tmux_events, text, list_text, idx, summary, sumHist,
                   watchVars, raceHist>>

\* one scheduler tick: the while condition, now = datetime.now(), the if
GS_Tick ==
    /\ pcS = "loop"
    /\ IF stop /\ wait_to_summarize
       THEN pcS' = "exit_stop" /\ Returned
       ELSE /\ now' = [day |-> day, tod |-> tod]
            /\ pcS' = IF ~wait_to_summarize \/ ShouldRun(now')
                      THEN "read_tmux" ELSE "sleep"
            /\ UNCHANGED <<today, tmux_events, text, list_text, idx,
                           summary, calls, results>>
    /\ UNCHANGED <<clockVars, cfgVars, unitVars,
                   stop, log, artifacts, last_run_day,
                   consumed, writes, watchVars, raceHist>>

\* sleep(timeout) returns
GS_Sleep ==
    /\ pcS = "sleep"
    /\ pcS' = "loop"
    /\ UNCHANGED <<clockVars, cfgVars, unitVars,
                   stop, log, artifacts, last_run_day,
                   today, now, tmux_events, text, list_text, idx, summary,
                   sumHist, watchVars, raceHist>>

\* merge_logs_by_timestamp: tmux_events = read_json_log(tmux_log_path)
GS_ReadTmux ==
    /\ pcS = "read_tmux"
    /\ LET r == read_json_log(log["tmux"])
       IN  IF r.raised
           THEN pcS' = "crashed" /\ Returned
           ELSE /\ pcS' = "read_fs"
                /\ tmux_events' = r.events
                /\ UNCHANGED <<today, now, text, list_text, idx, summary,
                               calls, results>>
    /\ UNCHANGED <<clockVars, cfgVars, unitVars,
                   stop, log, artifacts, last_run_day,
                   consumed, writes, watchVars, raceHist>>

\* merge_logs_by_timestamp: fs_events = read_json_log(fs_log_path), the
\* sort and the dump
GS_ReadFs ==
    /\ pcS = "read_fs"
    /\ LET r == read_json_log(log["fs"])
       IN  IF r.raised
           THEN pcS' = "crashed" /\ Returned
           ELSE /\ pcS' = "split"
                /\ text' = merge_logs_by_timestamp(tmux_events, r.events)
                /\ tmux_events' = <<>>
                /\ UNCHANGED <<today, now, list_text, idx, summary, calls,
                               results>>
    /\ UNCHANGED <<clockVars, cfgVars, unitVars,
                   stop, log, artifacts, last_run_day,
                   consumed, writes, watchVars, raceHist>>

\* summarize: the split, and the zero-chunk return
GS_Split ==
    /\ pcS = "split"
    /\ list_text' = split_json_by_token_limit(text, token_limit)
    /\ IF Len(list_text') = 0
       THEN pcS' = "check" /\ summary' = NoneVal /\ idx' = idx
       ELSE pcS' = "llm" /\ summary' = summary /\ idx' = 1
    /\ UNCHANGED <<clockVars, cfgVars, unitVars,
                   stop, log, artifacts, last_run_day,
                   today, now, tmux_events, text, sumHist, watchVars,
                   raceHist>>

\* summarize_one: what litellm.completion can give for call number n: an
\* exception (None), a response that is no ModelResponse (""), a content
LLMResults(n) == {NoneVal, Str(<<>>), Str(<<Atom("llm", n)>>)}

\* mutant of UserContent: the summary so far is left out
UserContent_NoAccumulator(i, acc, chunk) == json_dumps(chunk)

\* the user content of the call for chunk i, the summary so far being acc
UserContent(i, acc, chunk) ==
    IF i = 1 THEN json_dumps(chunk)
    ELSE acc.text \o <<Atom("nl", 2)>> \o json_dumps(chunk)

\* the system prompt of the call for chunk i
PromptName(i) == IF i = 1 THEN "single" ELSE "many"

\* mutant of AfterCall: the loop goes on after a None
AfterCall_NoNoneCheck(i, k, r) == IF i < k THEN "llm" ELSE "check"

\* summarize_many's loop (and summarize's single call): where control goes
\* after the call for chunk i of k returned r
AfterCall(i, k, r) == IF i < k /\ r.ok THEN "llm" ELSE "check"

\* one LLM call: summarize_one for chunk idx
GS_LLMCall ==
    /\ pcS = "llm"
    /\ \E r \in LLMResults(idx) :
          /\ calls' = Append(calls,
                 [prompt |-> PromptName(idx),
                  user |-> UserContent(idx, summary, list_text[idx])])
          /\ results' = Append(results, r)
          /\ summary' = r
          /\ pcS' = AfterCall(idx, Len(list_text), r)
          /\ idx' = IF pcS' = "llm" THEN idx + 1 ELSE idx
    /\ UNCHANGED <<clockVars, cfgVars, unitVars,
                   stop, log, artifacts, last_run_day,
                   today, now, tmux_events, text, list_text, consumed,
                   writes, watchVars, raceHist>>

\* mutant of GS_Check: a None summary is not turned away
GS_Check_NoReturn ==
    /\ pcS = "check"
    /\ pcS' = "write"
    /\ consumed' = Ids(json_load(text).events)
    /\ UNCHANGED <<clockVars, cfgVars, unitVars,
                   stop, log, artifacts, last_run_day,
                   today, now, tmux_events, text, list_text, idx, summary,
                   calls, results, writes, watchVars, raceHist>>

\* if summary is None: return
GS_Check ==
    /\ pcS = "check"
    /\ IF ~summary.ok
       THEN pcS' = "exit_abort" /\ Returned /\ UNCHANGED consumed
       ELSE /\ pcS' = "write"
            /\ consumed' = Ids(json_load(text).events)
            /\ UNCHANGED <<today, now, tmux_events, text, list_text, idx,
                           summary, calls, results>>
    /\ UNCHANGED <<clockVars, cfgVars, unitVars,
                   stop, log, artifacts, last_run_day,
                   writes, watchVars, raceHist>>

\* open(output_file, "w") and f.write(summary); an exception is logged
GS_Write ==
    /\ pcS = "write"
    /\ \/ /\ artifacts' = [artifacts EXCEPT
                              ![today] = [exists |-> TRUE,
                                          text |-> summary.text]]
          /\ writes' = Append(writes, [file |-> today, tick |-> now.day])
       \/ UNCHANGED <<artifacts, writes>>
    /\ pcS' = "set_last"
    /\ UNCHANGED <<clockVars, cfgVars, unitVars,
                   stop, log, last_run_day, today, now,
                   tmux_events, text, list_text, idx, summary, calls,
                   results, consumed, watchVars, raceHist>>

\* mutant of GS_SetLastRunDay: the loop goes on with the day unmarked
GS_SetLastRunDay_Continue ==
    /\ pcS = "set_last"
    /\ pcS' = "loop"
    /\ UNCHANGED <<clockVars, cfgVars, unitVars,
                   stop, log, artifacts, last_run_day,
                   today, now, tmux_events, text, list_text, idx, summary,
                   sumHist, watchVars, raceHist>>

\* summarizer.last_run_day = now.date()
GS_SetLastRunDay ==
    /\ pcS = "set_last"
    /\ last_run_day' = now.day
    /\ pcS' = "trunc_fs"
    /\ UNCHANGED <<clockVars, cfgVars, unitVars,
                   stop, log, artifacts, today, now,
                   tmux_events, text, list_text, idx, summary, sumHist,
                   watchVars, raceHist>>

\* a write call of watcher w that has loaded the log and not yet dumped it
InFlight(w) == pcW[w] \in {"open", "dump"}

\* mutant of Emptied: the log is opened for appending and keeps its content
Emptied_KeepsContent(w) ==
    /\ log' = log
    /\ truncated' = [truncated EXCEPT ![w] = TRUE]
    /\ stale' = [stale EXCEPT ![w] = @ \/ pcW[w] \in {"open", "dump"}]
    /\ UNCHANGED staleWrite

\* open(path, "w") by the pipeline: the log is emptied
Emptied(w) ==
    /\ log' = [log EXCEPT ![w] = ZeroByte]
    /\ truncated' = [truncated EXCEPT ![w] = TRUE]
    /\ stale' = [stale EXCEPT ![w] = @ \/ InFlight(w)]
    /\ UNCHANGED staleWrite

\* with open(summarizer.fs_log_path, "w")
GS_TruncFs ==
    /\ pcS = "trunc_fs"
    /\ Emptied("fs")
    /\ pcS' = "trunc_tmux"
    /\ UNCHANGED <<clockVars, cfgVars, unitVars,
                   stop, artifacts, last_run_day, today,
                   now, tmux_events, text, list_text, idx, summary, sumHist,
                   watchVars>>

\* with open(summarizer.tmux_log_path, "w"), and the break
GS_TruncTmux ==
    /\ pcS = "trunc_tmux"
    /\ Emptied("tmux")
    /\ pcS' = "exit_break"
    /\ Returned
    /\ UNCHANGED <<clockVars, cfgVars, unitVars,
                   stop, artifacts, last_run_day,
                   consumed, writes, watchVars>>

Summarizer ==
    \/ GS_Entry \/ GS_Tick \/ GS_Sleep \/ GS_ReadTmux \/ GS_ReadFs
    \/ GS_Split \/ GS_LLMCall \/ GS_Check \/ GS_Write \/ GS_SetLastRunDay
    \/ GS_TruncFs \/ GS_TruncTmux

(***************************************************************************)
(* lib/file_system_watcher.py and lib/tmux_watcher.py: the watch loops and *)
(* write_changes_to_file / write_commands_to_file.                         *)
(***************************************************************************)
\* word counts of a serialized entry
WordCounts == {7}

\* n new entries observed now, numbered from nextId
NewEntries(n, words) ==
    [i \in 1..n |-> Event(nextId + i - 1, Timestamp(day, tod), words)]

\* what one check_for_changes / check_for_completed_commands can return:
\* no change, or the changes of one log entry (fs), or several
\* completed commands (tmux)
Batches(w, budget) ==
    {<<>>} \cup
    {NewEntries(n, words) :
        n \in {m \in 1..(IF w = "fs" THEN 1 ELSE budget) :
                  nextId + m - 1 <= 2 + budget},
        words \in WordCounts}

\* the entries a write call appends: write_changes_to_file stamps its one
\* entry with the time of the call, write_commands_to_file keeps the time
\* each command was seen
Stamped(w, b) ==
    IF w = "fs"
    THEN [i \in 1..Len(b) |-> [b[i] EXCEPT !.ts = Timestamp(day, tod)]]
    ELSE b

\* mutant of LoadExisting: the existing array is not loaded
LoadExisting_StartsEmpty(f) == <<>>

\* "Load existing JSON if the file exists": a missing file and a
\* JSONDecodeError both give []
LoadExisting(f) == IF json_load(f).ok THEN json_load(f).events ELSE <<>>

\* write_*_to_file(watcher, b) up to the in-memory append:
\* `if not changes: return`, the load, the append
WriteBegin(w, b) ==
    IF b = <<>>
    THEN /\ pcW' = [pcW EXCEPT ![w] = "loop"]
         /\ batch' = [batch EXCEPT ![w] = <<>>]
         /\ UNCHANGED <<all_events, preCall, stale>>
    ELSE /\ batch' = [batch EXCEPT ![w] = Stamped(w, b)]
         /\ all_events' = [all_events EXCEPT
                              ![w] = LoadExisting(log[w]) \o batch'[w]]
         /\ preCall' = [preCall EXCEPT ![w] = log[w]]
         /\ stale' = [stale EXCEPT ![w] = FALSE]
         /\ pcW' = [pcW EXCEPT ![w] = "open"]

\* watch: while not stop_event.is_set(): the check, `if changes:` and the
\* call of write_*_to_file up to its load of the log
W_Loop(w) ==
    /\ pcW[w] = "loop"
    /\ IF stop
       THEN /\ pcW' = [pcW EXCEPT ![w] = "exit"]
            /\ UNCHANGED <<batch, all_events, preCall, stale, nextId>>
       ELSE \E b \in Batches(w, MaxEvents) :
               /\ nextId' = nextId + Len(b)
               /\ IF b # <<>> THEN WriteBegin(w, b)
                  ELSE UNCHANGED <<pcW, batch, all_events, preCall, stale>>
    /\ UNCHANGED <<clockVars, cfgVars, unitVars,
                   stop, log, artifacts, sumVars,
                   sumHist, truncated, staleWrite>>

\* open(watcher.output_file, "w"): the file is emptied
W_Open(w) ==
    /\ pcW[w] = "open"
    /\ log' = [log EXCEPT ![w] = ZeroByte]
    /\ pcW' = [pcW EXCEPT ![w] = "dump"]
    /\ UNCHANGED <<clockVars, cfgVars, unitVars,
                   stop, artifacts, sumVars, sumHist,
                   batch, all_events, nextId, preCall, raceHist>>

\* json.dump(all_events, f), and the return to the watch loop
W_Dump(w) ==
    /\ pcW[w] = "dump"
    /\ log' = [log EXCEPT ![w] = Json(all_events[w])]
    /\ staleWrite' = [staleWrite EXCEPT ![w] = @ \/ stale[w]]
    /\ pcW' = [pcW EXCEPT ![w] = "loop"]
    /\ batch' = [batch EXCEPT ![w] = <<>>]
    /\ all_events' = [all_events EXCEPT ![w] = <<>>]
    /\ preCall' = [preCall EXCEPT ![w] = Missing]
    /\ stale' = [stale EXCEPT ![w] = FALSE]
    /\ UNCHANGED <<clockVars, cfgVars, unitVars,
                   stop, artifacts, sumVars, sumHist,
                   nextId, truncated>>

Watcher(w) == W_Loop(w) \/ W_Open(w) \/ W_Dump(w)

Next ==
    \/ Advance
    \/ SetStop
    \/ Summarizer
    \/ \E w \in W : Watcher(w)

Spec == Init /\ [][Next]_vars

(***************************************************************************)
(* The process is ended and started again: the files stay, the objects of  *)
(* main are built anew.                                                    *)
(***************************************************************************)
MaxWrites == 2

\* main, run again: LLMSummarizer(), the watchers and the Event are fresh
Restart ==
    /\ Len(writes) < MaxWrites
    /\ pcS # "entry"
    /\ stop' = FALSE
    /\ pcS' = "entry"
    /\ last_run_day' = LastRunDayInit
    /\ Returned
    /\ pcW' = [w \in W |-> IF mode = "record" THEN "loop" ELSE "off"]
    /\ batch' = [w \in W |-> <<>>]
    /\ all_events' = [w \in W |-> <<>>]
    /\ preCall' = [w \in W |-> Missing]
    /\ stale' = [w \in W |-> FALSE]
    /\ UNCHANGED <<clockVars, cfgVars, unitVars, log, artifacts, consumed,
                   writes, nextId, truncated, staleWrite>>

NextRestart ==
    \/ Next
    \/ Restart

SpecRestart == Init /\ [][NextRestart]_vars

(***************************************************************************)
(* The write functions on their own: write_changes_to_file and             *)
(* write_commands_to_file called with any batch, the empty one included,   *)
(* while the pipeline may empty a log at any moment.                       *)
(***************************************************************************)
InitWrite ==
    /\ Init
    /\ mode = "record"

\* a direct call write_*_to_file(watcher, b)
Api_Call(w) ==
    /\ pcW[w] = "loop"
    /\ \E b \in Batches(w, MaxApiEvents) :
          /\ nextId' = nextId + Len(b)
          /\ WriteBegin(w, b)
    /\ UNCHANGED <<clockVars, cfgVars, unitVars,
                   stop, log, artifacts, sumVars,
                   sumHist, truncated, staleWrite>>

\* the pipeline's open(path, "w") on log w
Env_Truncate(w) ==
    /\ Emptied(w)
    /\ UNCHANGED <<clockVars, cfgVars, unitVars,
                   stop, artifacts, sumVars, sumHist,
                   watchVars>>

NextWrite ==
    \/ Advance
    \/ \E w \in W : Api_Call(w) \/ W_Open(w) \/ W_Dump(w) \/ Env_Truncate(w)

SpecWrite == InitWrite /\ [][NextWrite]_vars

(***************************************************************************)
(* lib/llm.py on its own: merge_logs_by_timestamp called on any two log    *)
(* files, and split_json_by_token_limit called on any merged array with    *)
(* any token limit.                                                        *)
(***************************************************************************)
MaxLogLen == 2
MaxSplitLen == 3

\* timestamps of the events of a log: none, or seconds
TsValues == {NoTimestamp, 0, 1}

\* the arrays of n events, numbered from base + 1, a file can hold
LogArrays(base, n, tss, wordss) ==
    {[i \in 1..n |-> Event(base + i, f[i][1], f[i][2])] :
        f \in [1..n -> tss \X wordss]}

\* a log file as merge_logs_by_timestamp can find it
MergeFiles(base) ==
    {Missing, ZeroByte} \cup
    {Json(a) : a \in UNION {LogArrays(base, n, TsValues, {7}) :
                               n \in 0..MaxLogLen}}

\* a process in which no thread has taken a step and no file was written
Untouched ==
    /\ stop = FALSE
    /\ artifacts = [d \in Days |-> NoFile]
    /\ last_run_day = LastRunDayInit
    /\ tmux_events = <<>>
    /\ list_text = <<>>
    /\ idx = 0
    /\ summary = NoneVal
    /\ pcW = [w \in W |-> "off"]
    /\ batch = [w \in W |-> <<>>]
    /\ all_events = [w \in W |-> <<>>]
    /\ nextId = 3
    /\ calls = <<>>
    /\ results = <<>>
    /\ consumed = {}
    /\ writes = <<>>
    /\ truncated = [w \in W |-> FALSE]
    /\ stale = [w \in W |-> FALSE]
    /\ staleWrite = [w \in W |-> FALSE]
    /\ preCall = [w \in W |-> Missing]

\* generate_summary(wait_to_summarize=False) at its call of
\* merge_logs_by_timestamp
InitMerge ==
    /\ day = 1 /\ tod = 1
    /\ mode = "summarize"
    /\ run_hour = 1
    /\ token_limit = 2
    /\ log \in {f \in [W -> MergeFiles(0) \cup MergeFiles(MaxLogLen)] :
                    /\ f["tmux"] \in MergeFiles(0)
                    /\ f["fs"] \in MergeFiles(MaxLogLen)}
    /\ pcS = "read_tmux"
    /\ today = 1
    /\ now = [day |-> 1, tod |-> 1]
    /\ text = Json(<<>>)
    /\ Untouched
    /\ ScanIdle
    /\ PanesIdle
    /\ FnIdle

NextMerge == GS_ReadTmux \/ GS_ReadFs

SpecMerge == InitMerge /\ [][NextMerge]_vars

\* word counts of a serialized event: estimates 0, 2, 3 and 4
SplitWords == {3, 7, 11, 14}
SplitLimits == {0, 2, 3, 5}

\* summarize at its call of split_json_by_token_limit
InitSplit ==
    /\ day = 1 /\ tod = 1
    /\ mode = "summarize"
    /\ run_hour = 1
    /\ token_limit \in SplitLimits
    /\ log = [w \in W |-> ZeroByte]
    /\ pcS = "split"
    /\ today = 1
    /\ now = [day |-> 1, tod |-> 1]
    /\ text \in {Json(a) : a \in UNION {LogArrays(0, n, {0}, SplitWords) :
                                          n \in 0..MaxSplitLen}}
    /\ Untouched
    /\ ScanIdle
    /\ PanesIdle
    /\ FnIdle

NextSplit == GS_Split

SpecSplit == InitSplit /\ [][NextSplit]_vars

(***************************************************************************)
(* The file watcher on its own: watch of lib/file_system_watcher.py over   *)
(* a directory that the user edits and into which the logs and the         *)
(* summaries are written.                                                  *)
(***************************************************************************)
MaxLines == 5

\* MaxLines lines of text, all different
SomeLines == [i \in 1..MaxLines |-> Line(i, 0, FALSE, FALSE, i)]

\* the same with the whitespace of the first line changed
Respaced == [SomeLines EXCEPT ![1] = Line(1, 1, FALSE, FALSE, 1)]

\* what the user can make of d/a.txt
UserContents ==
    {Absent, TextFile(<<>>), TextFile(SomeLines), TextFile(Respaced),
     BinaryFile(1), BinaryFile(2)}

\* the directory with d/a.txt alone
Bare(f) == [p \in Paths |-> IF p = UserFile THEN f ELSE Absent]

\* the directory with a hidden file, a subdirectory and both logs as well
Furnished(f) ==
    [Bare(f) EXCEPT ![HiddenFile] = TextFile(<<Line(9, 0, FALSE, FALSE, 9)>>),
                    ![SubDir] = Dir,
                    ![FsLog] = TextFile(<<>>),
                    ![TmuxLog] = TextFile(<<>>)]

\* the lines of the file-change log after an entry of n changes was added
LogLines(n) == [i \in 1..n |-> Line(i, 0, FALSE, FALSE, 0)]

\* the text of a summary
SummaryLines == <<Line(8, 0, FALSE, FALSE, 8)>>

\* the record sub-command when fs_watch is called
InitScan ==
    /\ day = 1 /\ tod = 0
    /\ mode = "record"
    /\ run_hour = 1
    /\ token_limit = 2
    /\ log = [w \in W |-> ZeroByte]
    /\ pcS = "off"
    /\ today = 0
    /\ now = [day |-> 0, tod |-> 0]
    /\ text = Json(<<>>)
    /\ Untouched
    /\ files \in {Bare(TextFile(<<>>)), Furnished(TextFile(<<>>)),
                  Furnished(TextFile(SomeLines))}
    /\ file_snapshots = [p \in Paths |-> NoSnapshot]
    /\ include_filetypes \in {{}, {".txt"}, {".txt", ".md", ".json"}}
    /\ exclude_filetypes \in {{}, {".json"}}
    /\ major_changes_only \in BOOLEAN
    /\ changes = <<>>
    /\ pcF = "init"
    /\ quiet = FALSE
    /\ last_seen = Absent
    /\ PanesIdle
    /\ FnIdle

\* watch, up to its loop: the initial scan and the first snapshots
F_InitialScan ==
    /\ pcF = "init"
    /\ LET st == InitialLoop(scan_files,
                     [snaps |-> file_snapshots, changes |-> <<>>,
                      raised |-> FALSE])
       IN  /\ file_snapshots' = st.snaps
           /\ pcF' = IF st.raised THEN "crashed" ELSE "loop"
    /\ last_seen' = files[UserFile]
    /\ UNCHANGED <<files, include_filetypes, exclude_filetypes,
                   major_changes_only, changes, quiet>>
    /\ UNCHANGED <<clockVars, cfgVars, stop, log, artifacts, sumVars,
                   sumHist, watchVars, raceHist, paneVars,
                   fnVars>>

\* one pass of the loop of watch: check_for_changes and, `if changes:`,
\* write_changes_to_file; an exception of check_for_changes leaves watch
F_Cycle ==
    /\ pcF = "loop"
    /\ ~stop
    /\ LET st == check_for_changes
       IN  /\ file_snapshots' = st.snaps
           /\ changes' = IF st.raised THEN <<>> ELSE st.changes
           /\ pcF' = IF st.raised THEN "crashed" ELSE "loop"
           /\ quiet' = ~st.raised
           /\ files' = IF ~st.raised /\ st.changes # <<>>
                       THEN [files EXCEPT
                               ![FsLog] = TextFile(LogLines(Len(st.changes)))]
                       ELSE files
    /\ last_seen' = files[UserFile]
    /\ UNCHANGED <<include_filetypes, exclude_filetypes, major_changes_only>>
    /\ UNCHANGED <<clockVars, cfgVars, stop, log, artifacts, sumVars,
                   sumHist, watchVars, raceHist, paneVars,
                   fnVars>>

\* the user writes, creates or deletes d/a.txt
Env_Edit ==
    /\ \E f \in UserContents :
          /\ f # [files[UserFile] EXCEPT !.readable = TRUE]
          /\ files' = [files EXCEPT ![UserFile] = f]
    /\ quiet' = FALSE
    /\ UNCHANGED <<file_snapshots, include_filetypes, exclude_filetypes,
                   major_changes_only, changes, pcF, last_seen>>
    /\ UNCHANGED <<clockVars, cfgVars, stop, log, artifacts, sumVars,
                   sumHist, watchVars, raceHist, paneVars,
                   fnVars>>

\* the user takes away, or gives back, the permission to read d/a.txt
Env_Chmod ==
    /\ isfile(files[UserFile])
    /\ files' = [files EXCEPT ![UserFile].readable = ~@]
    /\ UNCHANGED <<file_snapshots, include_filetypes, exclude_filetypes,
                   major_changes_only, changes, pcF, quiet, last_seen>>
    /\ UNCHANGED <<clockVars, cfgVars, stop, log, artifacts, sumVars,
                   sumHist, watchVars, raceHist, paneVars,
                   fnVars>>

\* generate_summary writes its artifact: the file is named by the date
\* taken when generate_summary was entered, today or an earlier day
Sys_WriteSummary ==
    /\ \E t \in 1..day :
          /\ files[SummaryFile(t)] = Absent
          /\ files' = [files EXCEPT ![SummaryFile(t)] = TextFile(SummaryLines)]
    /\ quiet' = FALSE
    /\ UNCHANGED <<file_snapshots, include_filetypes, exclude_filetypes,
                   major_changes_only, changes, pcF, last_seen>>
    /\ UNCHANGED <<clockVars, cfgVars, stop, log, artifacts, sumVars,
                   sumHist, watchVars, raceHist, paneVars,
                   fnVars>>

NextScan ==
    \/ Advance
    \/ F_InitialScan
    \/ F_Cycle
    \/ Env_Edit
    \/ Env_Chmod
    \/ Sys_WriteSummary

SpecScan == InitScan /\ [][NextScan]_vars

\* the record sub-command with include filters that overlap, so that
\* d/a.txt is listed twice
InitSnap ==
    /\ day = 1 /\ tod = 0
    /\ mode = "record"
    /\ run_hour = 1
    /\ token_limit = 2
    /\ log = [w \in W |-> ZeroByte]
    /\ pcS = "off"
    /\ today = 0
    /\ now = [day |-> 0, tod |-> 0]
    /\ text = Json(<<>>)
    /\ Untouched
    /\ files \in {Bare(Absent), Bare(TextFile(<<>>)),
                  Furnished(TextFile(SomeLines)), Furnished(BinaryFile(1))}
    /\ file_snapshots = [p \in Paths |-> NoSnapshot]
    /\ include_filetypes \in {{".txt"}, {".txt", "txt"}, {"txt", ".json"}}
    /\ exclude_filetypes \in {{}, {".json"}}
    /\ major_changes_only \in BOOLEAN
    /\ changes = <<>>
    /\ pcF = "init"
    /\ quiet = FALSE
    /\ last_seen = Absent
    /\ PanesIdle
    /\ FnIdle

NextSnap ==
    \/ F_InitialScan
    \/ F_Cycle
    \/ Env_Edit
    \/ Env_Chmod

SpecSnap == InitSnap /\ [][NextSnap]_vars

(***************************************************************************)
(* The tmux watcher: watch of lib/tmux_watcher.py, with the discovery of   *)
(* the panes (get_active_tmux_panes) when the configuration names none.    *)
(***************************************************************************)
MaxCommands == 2

\* what a pane can show
ScreenContents(p) ==
    IF p = "p1"
    THEN {<<>>,
          <<Dollar(Cmd("make", 1)), OutT>>,
          <<Dollar(Cmd("make", 1)), OutT, BarePrompt>>,
          <<Glyph(Cmd("make", 1)), OutT, BarePrompt, BlankT>>,
          <<Dollar(Cmd("test", 2)), OutEndsPrompt>>,
          <<Dollar(Cmd("ls", 1)), OutT, BarePrompt>>,
          <<Dollar(Cmd("make", 1)), OutT, Dollar(Cmd("ls", 1)), BarePrompt>>}
    ELSE {<<>>, <<Py(Cmd("test", 2)), OutT, BarePrompt>>}

\* the entries write_commands_to_file appends for the commands cs
TmuxEntries(cs) ==
    [i \in 1..Len(cs) |->
        [id |-> nextId + i - 1, ts |-> Timestamp(day, tod), words |-> 7,
         pane |-> cs[i].pane, command |-> cs[i].command,
         output |-> cs[i].output]]

\* the rest of a pass of the loop of watch: check_for_completed_commands
\* over the panes ps, `if completed_commands:`, and write_commands_to_file
\* up to its load of the log
PollAndWrite(ps) ==
    \E st \in {check_for_completed_commands(ps)} :
        /\ pane_states' = st.states
        /\ polled' = [p \in Panes |->
                         IF p \in ps /\ polled[p] < 2 THEN polled[p] + 1
                         ELSE polled[p]]
        /\ nextId' = nextId + Len(st.completed)
        /\ WriteBegin("tmux", TmuxEntries(st.completed))

\* one pass of the loop of watch: the while condition and, with no pane
\* configured, get_active_tmux_panes, which with no pane listed enters its
\* retry loop; then the poll
T_Pass ==
    /\ pcW["tmux"] = "loop"
    /\ IF stop
       THEN /\ pcW' = [pcW EXCEPT !["tmux"] = "exit"]
            /\ UNCHANGED <<panes, pane_states, polled, nextId, batch,
                           all_events, preCall, stale>>
       ELSE IF initial_panes = {}
       THEN /\ panes' = active
            /\ IF active = {}
               THEN /\ pcW' = [pcW EXCEPT !["tmux"] = "retry"]
                    /\ UNCHANGED <<pane_states, polled, nextId, batch,
                                   all_events, preCall, stale>>
               ELSE PollAndWrite(active)
       ELSE /\ panes' = panes
            /\ PollAndWrite(panes)
    /\ UNCHANGED <<clockVars, cfgVars, stop, log, artifacts, sumVars,
                   sumHist, truncated, staleWrite, scanVars, fnVars, screen,
                   active,
                   initial_panes, capture_full_output>>

\* mutant of T_Retry: the retry loop ends after one listing, whatever it
\* gave
T_Retry_ReturnsAtOnce ==
    /\ pcW["tmux"] = "retry"
    /\ PollAndWrite(panes)
    /\ UNCHANGED <<clockVars, cfgVars, stop, log, artifacts, sumVars,
                   sumHist, truncated, staleWrite, scanVars, fnVars, screen,
                   active, initial_panes, capture_full_output, panes>>

\* one pass of the retry loop of get_active_tmux_panes: tmux list-panes
\* and sleep(timeout), until the return code is 0; then the poll over
\* watcher.panes, which is still empty
T_Retry ==
    /\ pcW["tmux"] = "retry"
    /\ IF active = {}
       THEN UNCHANGED <<pcW, pane_states, polled, nextId, batch, all_events,
                        preCall, stale>>
       ELSE PollAndWrite(panes)
    /\ UNCHANGED <<clockVars, cfgVars, stop, log, artifacts, sumVars,
                   sumHist, truncated, staleWrite, scanVars, fnVars, screen,
                   active,
                   initial_panes, capture_full_output, panes>>

\* panes are opened or closed, the tmux server starts or ends
Env_Tmux ==
    /\ \E a \in SUBSET Panes :
          /\ a # active
          /\ active' = a
          /\ polled' = [p \in Panes |->
                           IF (p \in a) = (p \in active) \/ screen[p] = <<>>
                           THEN polled[p] ELSE 0]
    /\ UNCHANGED <<clockVars, cfgVars, stop, log, artifacts, sumVars,
                   sumHist, watchVars, raceHist, scanVars, fnVars,
                   screen,
                   initial_panes, capture_full_output, panes, pane_states>>

\* the text of a pane changes
Env_Screen ==
    /\ nextId < 3 + MaxCommands
    /\ \E p \in active : \E c \in ScreenContents(p) :
          /\ c # screen[p]
          /\ screen' = [screen EXCEPT ![p] = c]
          /\ polled' = [polled EXCEPT ![p] = 0]
    /\ UNCHANGED <<clockVars, cfgVars, stop, log, artifacts, sumVars,
                   sumHist, watchVars, raceHist, scanVars, fnVars,
                   active,
                   initial_panes, capture_full_output, panes, pane_states>>

\* main.py, the record sub-command with the tmux watcher started: the
\* summarizer thread at position s, the file watcher thread at position f
Started(s, f) ==
    /\ day = 1 /\ tod = 0
    /\ mode = "record"
    /\ run_hour = 1
    /\ token_limit = 2
    /\ stop = FALSE
    /\ artifacts = [d \in Days |-> NoFile]
    /\ pcS = s
    /\ last_run_day = LastRunDayInit
    /\ today = 0
    /\ now = [day |-> 0, tod |-> 0]
    /\ tmux_events = <<>>
    /\ text = Json(<<>>)
    /\ list_text = <<>>
    /\ idx = 0
    /\ summary = NoneVal
    /\ pcW = [w \in W |-> IF w = "tmux" THEN "loop" ELSE f]
    /\ batch = [w \in W |-> <<>>]
    /\ all_events = [w \in W |-> <<>>]
    /\ nextId = 3
    /\ calls = <<>>
    /\ results = <<>>
    /\ consumed = {}
    /\ writes = <<>>
    /\ truncated = [w \in W |-> FALSE]
    /\ stale = [w \in W |-> FALSE]
    /\ staleWrite = [w \in W |-> FALSE]
    /\ preCall = [w \in W |-> Missing]
    /\ ScanIdle
    /\ FnIdle
    /\ initial_panes \in {{}, {"p1"}}
    /\ capture_full_output \in BOOLEAN
    /\ panes = initial_panes
    /\ pane_states = [p \in Panes |-> NoPaneState]
    /\ polled = [p \in Panes |-> 0]

InitPoll ==
    /\ Started("off", "off")
    /\ log \in {f \in [W -> {Missing, ZeroByte}] : f["fs"] = ZeroByte}
    /\ screen = [p \in Panes |-> <<>>]
    /\ active \in {{}, {"p1"}, {"p1", "p2"}}

NextPoll ==
    \/ SetStop
    \/ T_Pass
    \/ T_Retry
    \/ W_Open("tmux")
    \/ W_Dump("tmux")
    \/ Env_Tmux
    \/ Env_Screen

SpecPoll == InitPoll /\ [][NextPoll]_vars

(***************************************************************************)
(* The three threads of the record sub-command and the stop event, on a    *)
(* day before the run hour.  The threads keep being scheduled; the signal  *)
(* and tmux owe nothing.                                                   *)
(***************************************************************************)
InitStop ==
    /\ Started("entry", "loop")
    /\ log = [w \in W |-> ZeroByte]
    /\ screen = [p \in Panes |->
                    IF p = "p1"
                    THEN <<Dollar(Cmd("make", 1)), OutT, BarePrompt>>
                    ELSE <<>>]
    /\ active \in {{}, {"p1"}}

TmuxWatcher == T_Pass \/ T_Retry \/ W_Open("tmux") \/ W_Dump("tmux")

\* generate_summary in wait mode between two runs
Waiting == GS_Entry \/ GS_Tick \/ GS_Sleep

NextStop ==
    \/ SetStop
    \/ Waiting
    \/ Watcher("fs")
    \/ TmuxWatcher
    \/ Env_Tmux

SpecStop ==
    /\ InitStop
    /\ [][NextStop]_vars
    /\ WF_vars(Waiting)
    /\ WF_vars(Watcher("fs"))
    /\ WF_vars(TmuxWatcher)

(***************************************************************************)
(* Functions of the program called on their own, on arguments drawn from   *)
(* bounded sets.  normalize_line is taken character by character here.     *)
(***************************************************************************)
MaxTokens == 12
MaxChars == 4
MaxOldLines == 2
MaxNewLines == 3

\* the sequences over S of length up to n
SeqsUpTo(S, n) == UNION {[1..k -> S] : k \in 0..n}

\* what a call returned, and that it raised
Returns(v) == [done |-> TRUE, raised |-> FALSE, value |-> v]
Raises == [done |-> TRUE, raised |-> TRUE, value |-> FALSE]

\* the characters of a line: blank, tab, and three that are not whitespace
Chars == {" ", "\t", "#", "/", "a"}
isspace(c) == c \in {" ", "\t"}

\* str.strip
strip(s) ==
    LET inked == {i \in 1..Len(s) : ~isspace(s[i])}
    IN  IF inked = {} THEN <<>>
        ELSE SubSeq(s, CHOOSE i \in inked : \A j \in inked : i <= j,
                       CHOOSE i \in inked : \A j \in inked : j <= i)

\* str.startswith
startswith(s, prefix) ==
    Len(s) >= Len(prefix) /\ SubSeq(s, 1, Len(prefix)) = prefix

\* mutant of sub_spaces: nothing is replaced
sub_spaces_Nothing(s) == s

\* sub(r"\s+", " ", s): each maximal run of whitespace becomes one blank
sub_spaces(s) ==
    LET kept == {i \in 1..Len(s) :
                    ~isspace(s[i]) \/ i = 1 \/ ~isspace(s[i - 1])}
        nth(k) == CHOOSE i \in kept : Cardinality({j \in kept : j <= i}) = k
    IN  [k \in 1..Cardinality(kept) |->
            IF isspace(s[nth(k)]) THEN " " ELSE s[nth(k)]]

\* normalize_line, on the characters of the line
normalize_line_chars(major, line) ==
    IF ~major THEN line
    ELSE LET normalized == strip(line)
         IN  IF \/ normalized = <<>>
                \/ startswith(normalized, <<"#">>)
                \/ startswith(normalized, <<"/", "/">>)
             THEN <<>>
             ELSE sub_spaces(normalized)

\* the lines a file can hold: two of ordinary text, the first of them
\* with a typing error mended, one with "def ", the empty line, and a
\* comment that holds "def "
TextA == Line(1, 0, FALSE, FALSE, 1)
TextAMended == Line(5, 0, FALSE, FALSE, 1)
TextB == Line(2, 0, FALSE, FALSE, 2)
DefLine == Line(3, 0, TRUE, FALSE, 3)
DefComment == Line(4, 0, TRUE, TRUE, 4)
LineAlphabet == {TextA, TextAMended, TextB, DefLine, EmptyLine, DefComment}

\* the lines a pane can hold
MaxPaneLines == 4
PaneLineAlphabet ==
    {BlankT, OutT, OutEndsPrompt, BarePrompt, Dollar(Cmd("make", 1)),
     Dollar(Cmd("ls", 1)), Glyph(Cmd("test", 2)), Py(Cmd("make", 11)),
     DollarEndsPrompt(Cmd("make", 2)), Mixed(Cmd("make", 1))}

\* the first words of a command
CmdBases ==
    {"ls", "cd", "pwd", "echo", "cat", "clear", "history", "lsx", "make"}

CallsOf_is_valid_command ==
    {[fn |-> "is_valid_command", args |-> <<c>>] :
        c \in {NoCmd, BlankCmd}
                \cup {Cmd(b, n) : b \in CmdBases, n \in 1..MaxTokens}}

CallsOf_normalize_line ==
    {[fn |-> "normalize_line", args |-> <<m, l>>] :
        m \in BOOLEAN, l \in SeqsUpTo(Chars, MaxChars)}

CallsOf_is_major_change ==
    {[fn |-> "is_major_change", args |-> <<m, o, n, p>>] :
        m \in BOOLEAN, o \in SeqsUpTo(LineAlphabet, MaxOldLines),
        n \in SeqsUpTo(LineAlphabet, MaxNewLines), p \in {UserFile, PyFile}}

CallsOf_get_command_from_content ==
    {[fn |-> "get_command_from_content", args |-> <<c>>] :
        c \in SeqsUpTo(PaneLineAlphabet, MaxPaneLines)}

\* tmux is on the PATH or not; what it lists, and what the pane shows
CallsOf_get_active_tmux_panes ==
    {[fn |-> "get_active_tmux_panes", args |-> <<installed, listed>>] :
        installed \in BOOLEAN, listed \in {<<"p1">>, <<"p1", "p2">>}}

CallsOf_get_tmux_pane_content ==
    {[fn |-> "get_tmux_pane_content", args |-> <<installed, c>>] :
        installed \in BOOLEAN, c \in ScreenContents("p1")}

InitCalls ==
    /\ day = 1 /\ tod = 0
    /\ mode = "record"
    /\ run_hour = 1
    /\ token_limit = 2
    /\ log = [w \in W |-> ZeroByte]
    /\ pcS = "off"
    /\ today = 0
    /\ now = [day |-> 0, tod |-> 0]
    /\ text = Json(<<>>)
    /\ Untouched
    /\ ScanIdle
    /\ PanesIdle
    /\ call \in CallsOf_is_valid_command \cup CallsOf_normalize_line
                    \cup CallsOf_is_major_change
                    \cup CallsOf_get_command_from_content
                    \cup CallsOf_get_active_tmux_panes
                    \cup CallsOf_get_tmux_pane_content
    /\ ret = NoRet

\* the variables a call on its own leaves alone
CallFrame ==
    UNCHANGED <<clockVars, cfgVars, stop, log, artifacts, sumVars, sumHist,
                watchVars, raceHist, scanVars, paneVars, call>>

Call_is_valid_command ==
    /\ call.fn = "is_valid_command"
    /\ ~ret.done
    /\ ret' = IF is_valid_command_raises(call.args[1]) THEN Raises
              ELSE Returns(is_valid_command(call.args[1]))
    /\ CallFrame

Call_normalize_line ==
    /\ call.fn = "normalize_line"
    /\ ~ret.done
    /\ ret' = Returns(normalize_line_chars(call.args[1], call.args[2]))
    /\ CallFrame

Call_is_major_change ==
    /\ call.fn = "is_major_change"
    /\ ~ret.done
    /\ ret' = Returns(is_major_change(call.args[1], call.args[2],
                                      call.args[3], call.args[4]))
    /\ CallFrame

Call_get_command_from_content ==
    /\ call.fn = "get_command_from_content"
    /\ ~ret.done
    /\ ret' = Returns(get_command_from_content(call.args[1]))
    /\ CallFrame

\* get_active_tmux_panes with no pane tracked before.  Without tmux
\* the first subprocess.run raises FileNotFoundError inside the try, no
\* pane is listed, and the subprocess.run of the retry loop raises it
\* outside of any try.
Call_get_active_tmux_panes ==
    /\ call.fn = "get_active_tmux_panes"
    /\ ~ret.done
    /\ LET installed == call.args[1]
           current_panes == IF installed THEN call.args[2] ELSE <<>>
       IN  ret' = IF current_panes = <<>> /\ ~installed THEN Raises
                  ELSE Returns(current_panes)
    /\ CallFrame

\* get_tmux_pane_content of lib/tmux.py: only CalledProcessError is
\* caught, which subprocess.run without check=True never raises
Call_get_tmux_pane_content ==
    /\ call.fn = "get_tmux_pane_content"
    /\ ~ret.done
    /\ ret' = IF ~call.args[1] THEN Raises ELSE Returns(call.args[2])
    /\ CallFrame

NextCalls ==
    \/ Call_get_active_tmux_panes
    \/ Call_get_tmux_pane_content
    \/ Call_get_command_from_content
    \/ Call_is_valid_command
    \/ Call_normalize_line
    \/ Call_is_major_change

SpecCalls == InitCalls /\ [][NextCalls]_vars

(***************************************************************************)
(* Claims C1 to C10: the daily scheduling state machine, the chunk-by-     *)
(* chunk reduction, and the log files under concurrent writers.            *)
(***************************************************************************)
\* positions of a run, from the merge to the last truncation
BeforeMark == {"read_tmux", "read_fs", "split", "llm", "check", "write",
               "set_last"}
AfterCheck == {"write", "set_last", "trunc_fs", "trunc_tmux"}
Looping == {"loop", "sleep"}

\* the entries a file holds as a JSON array (none when it is no JSON)
Entries(f) == IF f.kind = "json" THEN f.events ELSE <<>>

\* C1: with wait_to_summarize = True a tick (one pass of the while loop
\* with the stop event clear) starts a run if and only if the time of day
\* is >= run_hour and the date is > last_run_day; a tick that starts no run
\* goes to sleep and changes no log, no artifact, issues no LLM call; and a
\* run is only ever in progress for a tick that met the condition.
C1_TickStartsRunIffDue ==
    /\ [][(wait_to_summarize /\ pcS = "loop" /\ pcS' # "loop" /\ ~stop) =>
            /\ pcS' \in {"read_tmux", "sleep"}
            /\ (pcS' = "read_tmux") <=>
                   (tod >= run_hour /\ day > last_run_day)
            /\ pcS' = "sleep" =>
                   UNCHANGED <<log, artifacts, last_run_day, calls, results,
                               writes, truncated>>]_vars
    /\ [](wait_to_summarize /\ pcS \in BeforeMark =>
            now.tod >= run_hour /\ now.day > last_run_day)

C1_Witness ==
    /\ wait_to_summarize
    /\ pcS = "read_tmux"
    /\ now.tod = run_hour
    /\ now.day = 2

\* C2: in one process, whatever the ticks and the LLM outcomes, at most one
\* artifact write happens for any calendar day D, and no run is in progress
\* for day D once last_run_day = D.
C2_AtMostOneArtifactPerDay ==
    /\ \A d \in Days :
          Cardinality({i \in DOMAIN writes : writes[i].tick = d}) <= 1
    /\ wait_to_summarize /\ pcS \in BeforeMark => now.day # last_run_day

C2_Witness ==
    /\ Len(writes) = 1
    /\ last_run_day = writes[1].tick
    /\ day > last_run_day
    /\ ~stop

\* C3: when summarize returns a summary, the run writes the summary text to
\* the artifact file, then sets last_run_day to the date of the tick, then
\* empties the file-change log and the command log; after the run both
\* logs hold no events.
C3_WriteThenMarkThenTruncate ==
    /\ pcS \in {"set_last", "trunc_fs", "trunc_tmux"} =>
          artifacts[today] = [exists |-> TRUE, text |-> summary.text]
    /\ pcS \in {"trunc_fs", "trunc_tmux"} => last_run_day = now.day
    /\ pcS \in {"write", "set_last", "trunc_fs"} =>
          \A w \in W : ~truncated[w]
    /\ pcS = "trunc_tmux" => truncated["fs"] /\ ~truncated["tmux"]
    /\ pcS = "exit_break" => \A w \in W : Entries(log[w]) = <<>>

\* C4: a run that aborts (zero chunks, or an LLM call gave None) leaves
\* last_run_day as it was, writes no artifact and empties no log; a run
\* whose summary is None never reaches the write, the marking or the
\* truncations.
C4_AbortLeavesEverything ==
    /\ pcS \in AfterCheck => summary.ok
    /\ pcS = "exit_abort" =>
          /\ last_run_day = LastRunDayInit
          /\ writes = <<>>
          /\ \A d \in Days : artifacts[d] = NoFile
          /\ \A w \in W : ~truncated[w]

C4_Witness ==
    /\ pcS = "exit_abort"
    /\ Entries(log["fs"]) # <<>>
    /\ Entries(log["tmux"]) # <<>>

\* C5: after a run aborts, the scheduler loop of generate_summary stays
\* alive: the step that finds the summary to be None goes back to the loop.
C5_AbortKeepsLoopAlive ==
    [][(wait_to_summarize /\ pcS = "check" /\ ~summary.ok /\ pcS' # pcS) =>
          pcS' \in Looping]_vars

\* C6: the pipeline runs daily: in a recording process whose stop event is
\* clear, once a day's run is done the scheduler is back in its loop, so
\* that a tick of a later day can start the next run.
C6_DoneForDayKeepsScheduling ==
    (wait_to_summarize /\ ~stop /\ last_run_day # LastRunDayInit) =>
        pcS \in Looping \cup {"trunc_fs", "trunc_tmux"}

\* C7: with k >= 1 chunks and every call succeeding, exactly k calls are
\* issued, in chunk order: the first with the "single" prompt and chunk 1,
\* the i-th with the "many" prompt and result(i-1) + "\n\n" + chunk i; the
\* summary returned is the result of call k.
C7_OneCallPerChunkInOrder ==
    /\ \A i \in 1..Len(calls) :
          /\ i <= Len(list_text)
          /\ calls[i].prompt = IF i = 1 THEN "single" ELSE "many"
          /\ calls[i].user =
                IF i = 1 THEN json_dumps(list_text[1])
                ELSE results[i - 1].text \o <<Atom("nl", 2)>>
                         \o json_dumps(list_text[i])
    /\ (pcS = "check" /\ Len(list_text) >= 1
            /\ \A i \in 1..Len(results) : results[i].ok) =>
          /\ Len(calls) = Len(list_text)
          /\ Len(results) = Len(list_text)
          /\ summary = results[Len(list_text)]

C7_Witness ==
    /\ pcS = "check"
    /\ Len(list_text) = 3
    /\ Len(calls) = 3
    /\ \A i \in 1..3 : results[i].ok
    /\ results[1].text # <<>>

\* C8: in a run of k >= 2 chunks, when the call for chunk j gives None no
\* call is issued for a later chunk, the run's result is None and nothing
\* is written; no chunk's call is issued twice.
C8_FailureStopsTheRun ==
    /\ Len(calls) = Len(results)
    /\ Len(calls) <= Len(list_text)
    /\ pcS = "llm" => idx = Len(calls) + 1
    /\ \A j \in 1..Len(results) :
          ~results[j].ok =>
             /\ j = Len(calls)
             /\ pcS = "check"
             /\ summary = NoneVal
             /\ writes = <<>>
             /\ \A d \in Days : artifacts[d] = NoFile

C8_Witness ==
    /\ pcS = "check"
    /\ Len(list_text) = 3
    /\ Len(calls) = 2
    /\ ~results[2].ok
    /\ results[1].ok

C10_WriteOnlyAppends ==
    /\ [][\A w \in W :
            (pcW[w] = "dump" /\ pcW'[w] # "dump" /\ ~stale[w]) =>
                log'[w] = Json(Entries(preCall[w]) \o batch[w])]_vars
    /\ [](\A w \in W : pcW[w] \in {"open", "dump"} => batch[w] # <<>>)

C10_Witness ==
    /\ pcW["tmux"] = "loop"
    /\ ~truncated["tmux"]
    /\ Len(Entries(log["tmux"])) = 3
    /\ Entries(log["tmux"])[1].id = 2

(***************************************************************************)
(* Claims C11 to C20: cancellation, the chunker and the merge as           *)
(* functions, the directory scan and the pane poll.                        *)
(***************************************************************************)
\* the concatenation of a list of lists
RECURSIVE Concat(_)
Concat(ss) == IF ss = <<>> THEN <<>> ELSE Head(ss) \o Concat(Tail(ss))

\* the events of both logs in arrival order: command log, then file log
Arrival == Entries(log["tmux"]) \o Entries(log["fs"])

\* the position of the event with identity i in the sequence s
PosOf(i, s) == CHOOSE k \in 1..Len(s) : s[k].id = i

\* every thread of the record sub-command has ended
AllLoopsExited ==
    /\ pcS \in {"exit_stop", "exit_abort", "exit_break", "crashed"}
    /\ \A w \in W : pcW[w] = "exit"

\* C11: once the stop signal is set, the file watcher, the tmux watcher
\* (its pane discovery included) and generate_summary in wait mode each
\* finish their unit of work and exit; none runs forever.
C11_StopEndsEveryLoop == stop ~> AllLoopsExited

\* C12: for every merged event list and every token_limit the chunks of
\* split_json_by_token_limit, concatenated in chunk order, are the input
\* list: no event is dropped, duplicated, reordered or split, an event
\* whose own estimate exceeds the limit included.
C12_ChunksConcatToInput ==
    pcS # "split" => Concat(list_text) = Entries(text)

C12_Witness ==
    /\ pcS = "llm"
    /\ Len(Entries(text)) = 3
    /\ Len(list_text) = 3
    /\ item_tokens(Entries(text)[2]) > token_limit
    /\ list_text[2] = <<Entries(text)[2]>>

\* C13: merge_logs_by_timestamp returns a permutation of the events of
\* both logs in ascending timestamp order, an event without timestamp
\* counting as timestamp 0, and events of equal timestamp keeping their
\* arrival order (command-log events before file-log events, each in
\* file order).
C13_MergeIsStableSort ==
    pcS = "split" =>
        LET out == Entries(text)
        IN  /\ text.kind = "json"
            /\ Len(out) = Len(Arrival)
            /\ Ids(out) = Ids(Arrival)
            /\ \A k \in 1..Len(out) : out[k] = Arrival[PosOf(out[k].id, Arrival)]
            /\ \A j, k \in 1..Len(out) :
                  j < k =>
                     LET tj == IF out[j].ts = NoTimestamp THEN 0 ELSE out[j].ts
                         tk == IF out[k].ts = NoTimestamp THEN 0 ELSE out[k].ts
                     IN  \/ tj < tk
                         \/ /\ tj = tk
                            /\ PosOf(out[j].id, Arrival)
                                  < PosOf(out[k].id, Arrival)

C13_Witness ==
    /\ pcS = "split"
    /\ Len(Entries(log["tmux"])) = 2
    /\ Len(Entries(log["fs"])) = 2
    /\ Entries(log["tmux"])[1].ts = 1
    /\ Entries(log["tmux"])[2].ts = 0
    /\ Entries(log["fs"])[1].ts = NoTimestamp
    /\ Entries(log["fs"])[2].ts = 1
    /\ Entries(text)[1].id = 2

\* C14: when a log file is missing or is no JSON (the zero-byte file of a
\* truncation included), merge_logs_by_timestamp raises no error and
\* returns the sorted events of the other log.
C14_MissingOrMalformedIsEmpty ==
    /\ pcS # "crashed"
    /\ pcS = "split" => text = Json(SortByTs(Arrival))

\* C15: if check_for_changes is run twice with no file modified, created
\* or deleted in between (the watcher's own write of its log apart), the
\* second run returns no change record and leaves file_snapshots as it was.
C15_SecondScanFindsNothing ==
    [][(quiet /\ F_Cycle) =>
          (changes' = <<>> /\ file_snapshots' = file_snapshots)]_vars

\* C16: with the directory holding one empty text file at the last scan,
\* no include and no exclude filter and major_changes_only off, the pass of
\* the watch loop that follows the appending of MaxLines lines logs exactly
\* one change record, "modified", whose diff adds exactly those lines.
C16_AppendGivesOneModifiedRecord ==
    [][(/\ F_Cycle
        /\ include_filetypes = {}
        /\ exclude_filetypes = {}
        /\ ~major_changes_only
        /\ last_seen = TextFile(<<>>)
        /\ files = Bare(TextFile(SomeLines))) =>
          changes' = <<Change("modified", UserFile,
                              [none |-> FALSE, msg |-> "",
                               removed |-> <<>>, added |-> SomeLines])>>]_vars

\* C17: scan_files returns exactly the regular files under the watched
\* directory that match an include filter (all regular files when there is
\* no include filter) and do not end with an exclude filter.
C17_ScanListsMatchingRegularFiles ==
    {scan_files[i] : i \in DOMAIN scan_files} =
        {p \in Paths :
            /\ isfile(files[p])
            /\ \/ include_filetypes = {}
               \/ \E ft \in include_filetypes : Suffix(p) = ft
            /\ ~\E ft \in exclude_filetypes : Suffix(p) = ft}

\* C18: with the logs and the summaries inside a watched directory, no
\* change record is ever returned for the file-change log, the command log
\* or a summary file, whatever the scans, log writes and summary runs.
C18_NoRecordForOwnFiles ==
    \A i \in DOMAIN changes :
        changes[i].file.k \notin {"fslog", "tmuxlog", "summary"}

\* C19: an error of reading or hashing one file during a scan is swallowed:
\* the file is skipped and the watch loop goes on to its next pass.
C19_ReadErrorSkipsTheFile == pcF # "crashed"

\* the panes of the records of a batch of write_commands_to_file
PanesOf(b) == {b[i].pane : i \in 1..Len(b)}

\* C20: while what a capture of a pane gives stays the same, only the
\* first poll of the pane can emit a record for it: a poll that follows
\* another one emits none.
C20_EmittedOnlyOnce ==
    [][\A p \in Panes :
          (TmuxWatcher /\ pcW["tmux"] \in {"loop", "retry"} /\ polled[p] >= 1)
              => p \notin PanesOf(batch'["tmux"])]_vars

\* pane p1 shows a finished command, its record is in the log, and it has
\* been polled again since
C20_Witness ==
    /\ polled["p1"] = 2
    /\ "p1" \in active
    /\ is_command_finished(screen["p1"])
    /\ get_command_from_content(screen["p1"]) # NoCmd
    /\ pane_states["p1"].last_command = get_command_from_content(screen["p1"])
    /\ \E i \in 1..Len(Entries(log["tmux"])) :
          /\ Entries(log["tmux"])[i].pane = "p1"
          /\ Entries(log["tmux"])[i].command = pane_states["p1"].last_command
    /\ pcW["tmux"] = "loop"

(***************************************************************************)
(* Claims C21 to C30: the snapshots of the file watcher, the day of a run, *)
(* and the filters, the classifier and the chunker as functions.           *)
(***************************************************************************)
\* the positions of the records of a list of changes that are about path p
RecordsOf(cs, p) == {i \in DOMAIN cs : cs[i].file = p}

Fingerprint(f) ==
    [has |-> TRUE,
     hash |-> get_md5(f).hash,
     lines |-> IF is_binary(f) THEN <<>> ELSE f.lines,
     is_binary |-> is_binary(f)]

\* C22: a snapshot, once taken, is never removed, not even when its file
\* disappears; and after the initial scan or a cycle that no exception
\* left, every listed file that could be read has a snapshot with its
\* current hash and lines, whether or not a record was returned for it.
C22_SnapshotLifecycle ==
    [][/\ \A p \in Paths : file_snapshots[p].has => file_snapshots'[p].has
       /\ ((F_Cycle \/ F_InitialScan) /\ pcF' # "crashed") =>
              \A i \in DOMAIN scan_files :
                 (is_binary(files[scan_files[i]])
                     \/ get_content(files[scan_files[i]]).ok) =>
                   file_snapshots'[scan_files[i]]
                       = Fingerprint(files[scan_files[i]])]_vars

\* d/a.txt is gone, a pass of the loop has run since, and its snapshot is
\* still there
C22_Witness ==
    /\ quiet
    /\ pcF = "loop"
    /\ files[UserFile] = Absent
    /\ file_snapshots[UserFile].has
    /\ file_snapshots[UserFile].lines = SomeLines

\* C23: last_run_day lives in the process only.  A process started again
\* has last_run_day = 0001-01-01 whatever artifacts exist, and its tick at
\* or after run_hour starts a run also on a day whose artifact an earlier
\* process has written.
C23_RestartRunsTheDayAgain ==
    [][/\ Restart => (last_run_day' = LastRunDayInit
                         /\ artifacts' = artifacts)
       /\ (/\ GS_Tick
           /\ wait_to_summarize
           /\ ~stop
           /\ last_run_day = LastRunDayInit
           /\ tod >= run_hour
           /\ artifacts[day].exists) => pcS' = "read_tmux"]_vars

\* two processes have each written the artifact of the same day
C23_Witness ==
    /\ wait_to_summarize
    /\ Len(writes) = 2
    /\ writes[1].tick = writes[2].tick
    /\ writes[1].file = writes[2].file

\* C24: the artifact a run writes is named by the calendar date of the
\* run: the date of the file name is the date the same run stores into
\* last_run_day.
C24_ArtifactNamedByRunDate ==
    \A i \in DOMAIN writes : writes[i].file = writes[i].tick

RECURSIVE Words(_)
Words(s) ==
    IF s = <<>> THEN <<>>
    ELSE IF isspace(Head(s)) THEN Words(Tail(s))
    ELSE LET stops == {i \in 1..Len(s) : isspace(s[i])}
             n == IF stops = {} THEN Len(s)
                  ELSE (CHOOSE i \in stops : \A j \in stops : i <= j) - 1
         IN  <<SubSeq(s, 1, n)>> \o Words(SubSeq(s, n + 1, Len(s)))

\* the line is blank, or its first characters after the whitespace are
\* "#" or "//"
BlankOrComment(s) ==
    LET inked == {i \in 1..Len(s) : ~isspace(s[i])}
        first == CHOOSE i \in inked : \A j \in inked : i <= j
    IN  \/ inked = {}
        \/ s[first] = "#"
        \/ first < Len(s) /\ s[first] = "/" /\ s[first + 1] = "/"

\* no whitespace but single blanks between two words
Tidy(s) ==
    /\ \A i \in 1..Len(s) : s[i] # "\t"
    /\ s # <<>> => s[1] # " " /\ s[Len(s)] # " "
    /\ \A i \in 1..(Len(s) - 1) : ~(s[i] = " " /\ s[i + 1] = " ")

\* C26: with the filtering off normalize_line returns its argument; with
\* the filtering on it returns "" for a blank line and for a comment, and
\* otherwise the words of the line with one blank between two words; the
\* result normalizes to itself.
C26_NormalizeLine ==
    (call.fn = "normalize_line" /\ ret.done) =>
        LET major == call.args[1]
            line == call.args[2]
        IN  /\ ~ret.raised
            /\ ~major => ret.value = line
            /\ major /\ BlankOrComment(line) => ret.value = <<>>
            /\ major /\ ~BlankOrComment(line) =>
                  Words(ret.value) = Words(line) /\ Tidy(ret.value)
            /\ major =>
                  normalize_line_chars(major, ret.value) = ret.value

\* a line with a tab and a blank between its two words
C26_Witness ==
    /\ call = [fn |-> "normalize_line",
               args |-> <<TRUE, <<"a", "\t", " ", "/">> >>]
    /\ ret = Returns(<<"a", " ", "/">>)

\* the line, as is_major_change compares it
Normal(l) == normalize_line(TRUE, l)

\* C27: with the filtering on, a change whose new content brings in a line
\* that holds "def " is major, however few lines changed, for every file.
C27_DefLineIsMajor ==
    (call.fn = "is_major_change" /\ ret.done /\ call.args[1]) =>
        LET old_lines == call.args[2]
            new_lines == call.args[3]
        IN  (\E i \in DOMAIN new_lines :
                /\ new_lines[i].kw
                /\ ~new_lines[i].skip
                /\ \A j \in DOMAIN old_lines :
                      Normal(old_lines[j]) # Normal(new_lines[i]))
                => ret.value = TRUE

\* s without the elements at the positions of drop
Without(s, drop) ==
    LET kept == DOMAIN s \ drop
        nth(k) == CHOOSE i \in kept : Cardinality({j \in kept : j <= i}) = k
    IN  [k \in 1..Cardinality(kept) |-> s[nth(k)]]

\* new_lines is old_lines with empty lines added, and nothing else
OnlyBlankLinesAdded(old_lines, new_lines) ==
    \E drop \in SUBSET {i \in DOMAIN new_lines : new_lines[i] = EmptyLine} :
        drop # {} /\ Without(new_lines, drop) = old_lines

\* C28: with the filtering on and the default thresholds, a change that
\* only adds blank lines, wherever in the file, is minor.
C28_BlankLinesAreMinor ==
    (call.fn = "is_major_change" /\ ret.done /\ call.args[1]) =>
        (OnlyBlankLinesAdded(call.args[2], call.args[3])
            => ret.value = FALSE)

\* the estimate of a chunk
RECURSIVE Total(_)
Total(chunk) ==
    IF chunk = <<>> THEN 0 ELSE item_tokens(Head(chunk)) + Total(Tail(chunk))

\* the events of the input have the same timestamp and the same words
Identical(evs) ==
    \A i, j \in DOMAIN evs :
        evs[i].ts = evs[j].ts /\ evs[i].words = evs[j].words

\* the packing is greedy: a chunk was sealed exactly when the next event
\* did not fit, and a chunk of two or more events is within the limit
Greedy ==
    /\ \A k \in 1..(Len(list_text) - 1) :
          /\ list_text[k + 1] # <<>>
          /\ Total(list_text[k]) + item_tokens(list_text[k + 1][1])
                 > token_limit
    /\ \A k \in DOMAIN list_text :
          /\ Len(list_text[k]) >= 2 => Total(list_text[k]) <= token_limit
          /\ \A n \in 2..Len(list_text[k]) :
                Total(SubSeq(list_text[k], 1, n)) <= token_limit

C30_EstimateFromCharacters ==
    pcS # "split" =>
        \A i \in DOMAIN Entries(text) :
            LET e == Entries(text)[i]
            IN  /\ item_tokens(e) = (2 * item_chars(e)) \div 7
                /\ \A j \in DOMAIN Entries(text) :
                      item_chars(Entries(text)[j]) = item_chars(e)
                          => item_tokens(Entries(text)[j]) = item_tokens(e)

(***************************************************************************)
(* Claims C31 to C40: the classifier of changes, the command and the       *)
(* output taken from a pane, the discovery of the panes, and what a run    *)
(* of the pipeline may delete.                                             *)
(***************************************************************************)

\* the normalized lines of ls that are not empty
NormalSet(ls) == {Normal(ls[i]) : i \in DOMAIN ls} \ {EmptyLine}

\* the lines of one content and not of the other, normalized
AddedOrRemoved(old_lines, new_lines) ==
    (NormalSet(new_lines) \ NormalSet(old_lines))
        \cup (NormalSet(old_lines) \ NormalSet(new_lines))

\* C31: with the classifier off is_major_change returns true; with it on
\* it returns true exactly when (1) the file has a code extension and an
\* added or removed normalized line holds a structural keyword, or (2) the
\* added and removed normalized non-empty lines number min_lines_changed
\* or more, or (3) two lines paired by position differ after normalization
\* and are less alike than similarity_threshold.
C31_MajorIffOneOfThree ==
    (call.fn = "is_major_change" /\ ret.done) =>
        LET major == call.args[1]
            old_lines == call.args[2]
            new_lines == call.args[3]
            file_path == call.args[4]
            keyword == /\ HasCodeExt(file_path)
                       /\ \E l \in AddedOrRemoved(old_lines, new_lines) :
                             l.kw
            count == Cardinality(AddedOrRemoved(old_lines, new_lines))
                         >= min_lines_changed
            unlike == \E i \in DOMAIN old_lines \cap DOMAIN new_lines :
                         /\ Normal(old_lines[i]) # Normal(new_lines[i])
                         /\ Normal(old_lines[i]).fam
                                # Normal(new_lines[i]).fam
        IN  /\ ~ret.raised
            /\ ~major => ret.value = TRUE
            /\ major => (ret.value = (keyword \/ count \/ unlike))

\* one line of a text file was replaced by an unlike one: major by the
\* comparison of the paired lines alone
C31_Witness ==
    /\ call = [fn |-> "is_major_change",
               args |-> <<TRUE, <<TextA>>, <<TextB>>, UserFile>>]
    /\ ret = Returns(TRUE)

\* the first command of a line that is_valid_command accepts, or ""
FirstValid(line) ==
    LET cands == Candidates(line)
        valid == {k \in DOMAIN cands : is_valid_command(cands[k])}
    IN  IF valid = {} THEN NoCmd
        ELSE cands[CHOOSE k \in valid : \A j \in valid : k <= j]

\* C32: get_command_from_content returns "" when the content is not
\* finished or has fewer than two lines; otherwise it returns the first
\* valid candidate of the nearest line above the last one that has a
\* valid candidate ("" if there is none), so that a result other than ""
\* is a valid command and never comes from the last line.
C32_CommandFromContent ==
    (call.fn = "get_command_from_content" /\ ret.done) =>
        LET content == call.args[1]
            lines == strip_split(content)
            above == {i \in 1..(Len(lines) - 1) :
                         FirstValid(lines[i]) # NoCmd}
        IN  /\ ~ret.raised
            /\ (~is_command_finished(content) \/ Len(lines) < 2)
                  => ret.value = NoCmd
            /\ (is_command_finished(content) /\ Len(lines) >= 2) =>
                  IF above = {} THEN ret.value = NoCmd
                  ELSE ret.value =
                          FirstValid(lines[CHOOSE i \in above :
                                              \A j \in above : j <= i])
            /\ ret.value # NoCmd => is_valid_command(ret.value)

\* the pane ends with a typed command that ends with "#", above it a
\* line whose "$" candidate is refused and whose glyph candidate is valid
C32_Witness ==
    /\ call = [fn |-> "get_command_from_content",
               args |-> << <<Dollar(Cmd("make", 1)), Mixed(Cmd("make", 1)),
                             OutT, DollarEndsPrompt(Cmd("make", 2))>> >>]
    /\ ret = Returns(Cmd("make", 1))

\* C33: without full capture, the output stored with an emitted command
\* starts at the line from which the command was taken and holds no line
\* that is only a prompt.
C33_OutputStartsAtTheCommand ==
    ~capture_full_output =>
        \A i \in DOMAIN batch["tmux"] :
            LET rec == batch["tmux"][i]
            IN  /\ rec.output # <<>>
                /\ \E k \in DOMAIN Candidates(rec.output[1]) :
                      Candidates(rec.output[1])[k] = rec.command
                /\ \A j \in DOMAIN rec.output :
                      rec.output[j].kind # "bare"

C35_NoTmuxNoException ==
    (/\ call.fn \in {"get_active_tmux_panes", "get_tmux_pane_content"}
     /\ ret.done
     /\ ~call.args[1]) => ~ret.raised

\* C36: once a run has advanced last_run_day or emptied a log, the
\* artifact of the run exists and holds the summary of the run.
C36_TruncateOnlyAfterWrite ==
    pcS \in {"trunc_fs", "trunc_tmux"} =>
        /\ artifacts[today].exists
        /\ artifacts[today].text = summary.text

\* C37: every entry that a log holds at the moment the pipeline empties it
\* was in the merged input of the run.
C37_NoEventDeletedUnsummarized ==
    [][/\ GS_TruncFs => Ids(Entries(log["fs"])) \subseteq Ids(Entries(text))
       /\ GS_TruncTmux =>
             Ids(Entries(log["tmux"])) \subseteq Ids(Entries(text))]_vars

\* C38: split_json_by_token_limit returns no empty chunk: every chunk
\* holds at least one event, whatever the estimate of the first event.
C38_NoEmptyChunk ==
    pcS # "split" => \A k \in DOMAIN list_text : list_text[k] # <<>>

\* C40: every record written to the file-change log carries an is_binary
\* flag that is true for a file detected as binary ("Binary file added",
\* "Binary file modified") and false for a text file.
C40_IsBinaryFlagOfTheRecord ==
    \A i \in DOMAIN changes :
        changes_list(changes)[i].is_binary =
            (changes[i].diff.msg \in {"Binary file added",
                                      "Binary file modified"})

\* the panes a pass of the watch loop polls
PolledPanes == IF initial_panes = {} THEN active ELSE panes

\* last_command of pane p, "" for a pane without a state
LastCommand(p) ==
    IF pane_states[p].has THEN pane_states[p].last_command ELSE NoCmd

\* the command of pane p is new: the content is finished, a command is
\* extracted, and it is not last_command
NewCommand(p) ==
    /\ is_command_finished(get_tmux_pane_content(p))
    /\ get_command_from_content(get_tmux_pane_content(p)) # NoCmd
    /\ get_command_from_content(get_tmux_pane_content(p)) # LastCommand(p)

\* what is stored as the output of pane p
StoredOutput(p) ==
    IF capture_full_output THEN get_tmux_pane_content(p)
    ELSE extract_last_command_output(get_tmux_pane_content(p))

\* C39: a poll emits a record for a pane exactly when the content is
\* finished, a command is extracted that differs from last_command, and
\* the output is not blank; last_command becomes the command whenever it
\* is new; a command shown again with no other valid command in between
\* gives no second record; the state of a pane is never removed.
C39_EmissionRule ==
    [][/\ (T_Pass /\ ~stop /\ PolledPanes # {}) =>
             \A p \in Panes :
                 LET c == get_command_from_content(get_tmux_pane_content(p))
                     emits == /\ p \in PolledPanes
                              /\ NewCommand(p)
                              /\ NonBlank(StoredOutput(p))
                 IN  /\ (p \in PanesOf(batch'["tmux"])) = emits
                     /\ Cardinality({i \in DOMAIN batch'["tmux"] :
                                        batch'["tmux"][i].pane = p}) <= 1
                     /\ \A i \in DOMAIN batch'["tmux"] :
                           batch'["tmux"][i].pane = p =>
                               batch'["tmux"][i].command = c
                     /\ p \in PolledPanes =>
                           pane_states'[p] =
                               PaneState(IF NewCommand(p) THEN c
                                         ELSE LastCommand(p))
                     /\ p \notin PolledPanes =>
                           pane_states'[p] = pane_states[p]
       /\ \A p \in Panes : pane_states[p].has => pane_states'[p].has]_vars

\* make was run in pane p1 and its record is in the log; the pane now
\* shows make run again after another prompt and has been polled since:
\* the log still has the one record, of the first run
C39_Witness ==
    /\ ~capture_full_output
    /\ "p1" \in active
    /\ polled["p1"] >= 1
    /\ pcW["tmux"] = "loop"
    /\ screen["p1"] = <<Glyph(Cmd("make", 1)), OutT, BarePrompt, BlankT>>
    /\ pane_states["p1"] = PaneState(Cmd("make", 1))
    /\ Len(Entries(log["tmux"])) = 1
    /\ Entries(log["tmux"])[1].pane = "p1"
    /\ Entries(log["tmux"])[1].command = Cmd("make", 1)
    /\ Entries(log["tmux"])[1].output[1] = Dollar(Cmd("make", 1))
=============================================================================
